---- MODULE Spec2Model ----
(***************************************************************************)
(* Model of the batch orchestrator of vertex-nano-banana-unlimited:        *)
(* the /run and /cancel handlers, runWithExclusive, RunWithOptions,        *)
(* pickProxyEndpoints / StartSingBox, runScenario and the penalty ledger   *)
(* (src/internal/app/run.go).                                              *)
(***************************************************************************)
EXTENDS Integers, Sequences, FiniteSets, TLC

\* ------------------------------------------------------------- bounds
MaxReq == 2          \* POST /run requests over one behaviour
MaxCount == 2        \* largest scenarioCount a request asks for
NumEndpoints == 2    \* endpoints buildConfig derives from the subscription cache
MaxTicks == 1        \* how many freeze windows the clock may advance
MaxWorkers == 2      \* scenario workers asked for over one behaviour, all requests together
MaxUrls == 2         \* subscription URLs of one loadOrFetchOutbounds call
MaxItems == 2        \* outbounds one subscription lists
MaxNames == 3        \* node names one subscription lists, when only the names vary

\* ---------------------------------------------------- program constants
FreezeMinutes == 15  \* FreezeEndpoint: savePenalty(..., 15*time.Minute)
NoRun == 0           \* activeRunCancel == nil

Reqs == 1..MaxReq
Slots == 1..MaxCount

NoErr == ""
ErrCanceled == "context canceled"
ErrStep == "step error"
ErrNotCompleted == "step not completed"
ErrDownload == "download error"
ErrMkdir == "make download dir"
ErrBrowser == "start playwright"
ErrInvalid == "TargetURL or PromptText empty"
ErrPromptEmpty == "prompt is empty after entry"

DownloadOutcomeDownloaded == "downloaded"
DownloadOutcomeExhausted == "exhausted"
DownloadOutcomeNone == "none"

EndpointTags == <<"sub1-a", "sub1-b", "sub1-c", "sub1-d">>
EndpointURLs == <<"socks5://127.0.0.1:17880", "socks5://127.0.0.1:17881",
                  "socks5://127.0.0.1:17882", "socks5://127.0.0.1:17883">>

\* buildConfig: endpoint i carries outbound i's tag and the i-th local port
ConfiguredEndpoints ==
    [i \in 1..NumEndpoints |-> [Tag |-> EndpointTags[i], URL |-> EndpointURLs[i]]]

VARIABLES
    now,              \* wall clock, minutes
    ledger,           \* penalty file: tag -> expiry (minutes)
    activeRunCancel,  \* batch whose cancel func is registered, or NoRun
    activeRunToken,   \* run token counter
    pc,               \* per request: position of its handler
    ctxDone,          \* per request: Done() of r.Context() or of the batch's cctx is closed
    batch,            \* per request: RunWithOptions' locals and return values
    proc,             \* per request: the sing-box subprocess StartSingBox launched
    stopArmed,        \* per request: the goroutine waiting on ctx.Done() to stop it
    workers,          \* per request and slot: runScenario's locals
    admitted,         \* scenario workers asked for so far (bounds the exploration)
    flow,             \* one runScenario invocation step by step: its options, its
                      \* position in the workflow, its browser context and its trace
    sub,              \* one loadOrFetchOutbounds call: cache file, fetches, merged list
    ledgerOps,        \* penaltyMu and the ledger reads and writes in progress
    box,              \* the proxy package on its own: subscription list, cache file,
                      \* one StartSingBox or WarmupSingBox call and what it touched
    penaltyFile       \* the penalty file as text, line by line, and the calls on it

vars == <<now, ledger, activeRunCancel, activeRunToken, pc, ctxDone,
          batch, proc, stopArmed, workers, admitted, flow, sub, ledgerOps, box,
          penaltyFile>>

\* runScenario's locals (res.ProxyTag, res.Outcome, the returned error,
\* penalized) and a history of the invocation: entered (it passed the initial
\* ctx.Err() check), writes (successful ledger writes), ioFailed (a ledger write
\* of it failed and none has succeeded since)
IdleWorker ==
    [pc |-> "none", url |-> "", tag |-> "", outcome |-> DownloadOutcomeNone,
     err |-> NoErr, penalized |-> FALSE, entered |-> FALSE, writes |-> 0,
     ioFailed |-> FALSE]

IdleBatch ==
    [asked |-> 0, count |-> 0, token |-> 0, picked |-> FALSE, endpoints |-> <<>>, runCount |-> 0,
     errCh |-> <<>>, resultCh |-> <<>>, results |-> <<>>, retErr |-> NoErr,
     overlapped |-> FALSE, invalid |-> FALSE, touched |-> {}, proxyErr |-> FALSE]

\* no runScenario is being followed step by step.  via/submitted: the entry
\* point and the temperature it was given, in tenths; temperature, image:
\* opts.Temperature and opts.ImagePath # ""; at: the statement runScenario is at;
\* browserCtx, tracing, deferred: the browser context, its trace, and whether the
\* deferred stop-and-close is registered; length: what promptLength returned.
\* History: trail (the steps begun, in order), rets (what each of them returned),
\* late (those begun with ctx done), done (those runScenario took for a success),
\* paused (those followed by the StepPause sleep), failedAt (the step that ended
\* the scenario)
IdleFlow ==
    [via |-> "none", submitted |-> 0, temperature |-> 0, image |-> FALSE,
     at |-> "idle", browserCtx |-> "none", tracing |-> "off", deferred |-> FALSE,
     length |-> -1, trail |-> <<>>, rets |-> {}, late |-> {}, done |-> {},
     paused |-> {}, failedAt |-> ""]

\* readPenaltiesFile on a missing file: an empty map
EmptyLedger == [t \in {} |-> 0]

\* no loadOrFetchOutbounds call is followed
IdleSub == [pc |-> "idle"]

\* no FreezeEndpoint or filterPenalized call is followed singly
IdleOps == [pc |-> "idle"]

\* the proxy package is not followed on its own
IdleBox == [pc |-> "idle"]

\* the penalty file is not followed as text
IdleFile == [pc |-> "idle"]

Init ==
    /\ now = 0
    /\ ledger = EmptyLedger
    /\ activeRunCancel = NoRun
    /\ activeRunToken = 0
    /\ pc = [r \in Reqs |-> "idle"]
    /\ ctxDone = [r \in Reqs |-> FALSE]
    /\ batch = [r \in Reqs |-> IdleBatch]
    /\ proc = [r \in Reqs |-> "none"]
    /\ stopArmed = [r \in Reqs |-> FALSE]
    /\ workers = [r \in Reqs |-> [w \in Slots |-> IdleWorker]]
    /\ admitted = 0
    /\ flow = IdleFlow
    /\ box = IdleBox
    /\ penaltyFile = IdleFile
    /\ sub = IdleSub
    /\ ledgerOps = IdleOps

\* ctx.Err() != nil / <-ctx.Done() for the context of request r: its cancel func
\* ran, or its parent r.Context() ended (client gone, handler returned)
CtxDone(r) == ctxDone[r]

\* RunWithOptions of r has been entered and has not returned
InFlight(r) == pc[r] \in {"registered", "running"}

\* ------------------------------------------------------------ the ledger

\* savePenalty: penalties[tag] = now + dur, every other record kept
SavePenalty(l, tag, t) ==
    [x \in (DOMAIN l) \cup {tag} |-> IF x = tag THEN t + FreezeMinutes ELSE l[x]]

\* a filter that drops every endpoint with a record, expired or not
IsPenalizedAnyRecord(l, tag, t) == tag \in DOMAIN l

\* filterPenalized's test: a record exists and now.Before(exp)
IsPenalized(l, tag, t) == tag \in DOMAIN l /\ t < l[tag]

RECURSIVE FilterSeq(_, _, _)
FilterSeq(eps, l, t) ==
    IF eps = <<>> THEN <<>>
    ELSE IF IsPenalized(l, Head(eps).Tag, t)
         THEN FilterSeq(Tail(eps), l, t)
         ELSE <<Head(eps)>> \o FilterSeq(Tail(eps), l, t)

\* filterPenalized: the candidates without an unexpired record, in order
filterPenalized(eps) == FilterSeq(eps, ledger, now)

\* ------------------------------------------------- the active-run handle

\* calling the registered cancel func, if there is one: that batch's context is done
CancelRegistered(done) ==
    IF activeRunCancel # NoRun THEN [done EXCEPT ![activeRunCancel] = TRUE] ELSE done

\* cancelActiveRun: cancel the registered batch and clear the handle
cancelActiveRun(done) ==
    /\ ctxDone' = CancelRegistered(done)
    /\ activeRunCancel' = NoRun

\* a POST /cancel that answers "cancelled" whatever cancelActiveRun returned
CancelStatusAlways(cancelled) == "cancelled"

\* the status POST /cancel answers with: "cancelled" when cancelActiveRun
\* returned true, "idle" otherwise
CancelStatus(cancelled) == IF cancelled THEN "cancelled" ELSE "idle"

\* the answer of a POST /cancel handled in the current state: cancelActiveRun
\* returns true exactly when a cancel func is registered
CancelReply == CancelStatus(activeRunCancel # NoRun)

\* POST /cancel: cancelActiveRun, then the answer CancelReply
HandleCancel ==
    /\ cancelActiveRun(ctxDone)
    /\ UNCHANGED <<box, penaltyFile, sub, ledgerOps, flow, now, ledger, activeRunToken, pc, batch, proc, stopArmed,
                   workers, admitted>>

\* handleJSONRun / handleMultipartRun, a request that is rejected: unreadable
\* body, invalid JSON, empty prompt, unavailable image, image processing failure;
\* the handler returns, which ends r.Context()
HandleRunRejected(r) ==
    /\ pc[r] = "idle"
    /\ cancelActiveRun([ctxDone EXCEPT ![r] = TRUE])
    /\ pc' = [pc EXCEPT ![r] = "done"]
    /\ UNCHANGED <<box, penaltyFile, sub, ledgerOps, flow, now, ledger, activeRunToken, batch, proc, stopArmed, workers,
                   admitted>>

\* the handlers' scenarioCount: a value that is not > 0 becomes 1
HandlerCount(n) == IF n > 0 THEN n ELSE 1

\* handleJSONRun / handleMultipartRun, a request that passes validation; it
\* stops right before runWithExclusive
HandleRunAccepted(r, n) ==
    /\ pc[r] = "idle"
    /\ admitted + HandlerCount(n) <= MaxWorkers
    /\ cancelActiveRun(ctxDone)
    /\ pc' = [pc EXCEPT ![r] = "validated"]
    /\ batch' = [batch EXCEPT ![r].asked = n, ![r].count = HandlerCount(n)]
    /\ admitted' = admitted + HandlerCount(n)
    /\ UNCHANGED <<box, penaltyFile, sub, ledgerOps, flow, now, ledger, activeRunToken, proc, stopArmed, workers>>

\* the client of an unanswered request goes away: net/http cancels r.Context(),
\* the parent of the batch's context
ClientDisconnect(r) ==
    /\ pc[r] \in {"validated", "registered", "running", "returned"}
    /\ ~ctxDone[r]
    /\ ctxDone' = [ctxDone EXCEPT ![r] = TRUE]
    /\ UNCHANGED <<box, penaltyFile, sub, ledgerOps, flow, now, ledger, activeRunCancel, activeRunToken, pc, batch, proc,
                   stopArmed, workers, admitted>>

\* a runWithExclusive that registers without calling the previous cancel func
CancelPreviousSkipped(done) == done

\* runWithExclusive: if activeRunCancel != nil { activeRunCancel() }
CancelPrevious(done) ==
    IF activeRunCancel # NoRun THEN [done EXCEPT ![activeRunCancel] = TRUE] ELSE done

\* runWithExclusive, first critical section: the registered cancel func is
\* called, the token is incremented, the new cancel func is registered
Register(r) ==
    /\ pc[r] = "validated"
    /\ ctxDone' = CancelPrevious(ctxDone)
    /\ activeRunToken' = activeRunToken + 1
    /\ activeRunCancel' = r
    /\ batch' = [batch EXCEPT ![r].token = activeRunToken + 1,
                              ![r].overlapped = \E a \in Reqs \ {r} : InFlight(a)]
    /\ pc' = [pc EXCEPT ![r] = "registered"]
    /\ UNCHANGED <<box, penaltyFile, sub, ledgerOps, flow, now, ledger, proc, stopArmed, workers, admitted>>

\* ------------------------------------------------------- RunWithOptions

\* RunWithOptions returns before a worker exists: no results, an error; t is
\* the calls it has made by then
ReturnEarly(r, e, t) ==
    /\ batch' = [batch EXCEPT ![r].results = <<>>, ![r].retErr = e, ![r].touched = t]
    /\ pc' = [pc EXCEPT ![r] = "returned"]

\* a RunWithOptions that validates its options only after os.MkdirAll
PrologueLateValidation(done, invalid, mkdirFails) ==
    IF done THEN [err |-> ErrCanceled, touched |-> {}]
    ELSE IF mkdirFails THEN [err |-> ErrMkdir, touched |-> {"os.MkdirAll"}]
    ELSE IF invalid THEN [err |-> ErrInvalid, touched |-> {"os.MkdirAll"}]
    ELSE [err |-> NoErr, touched |-> {"os.MkdirAll"}]

\* RunWithOptions up to os.MkdirAll: the entry check of ctx, the check of
\* TargetURL and PromptText, the defaults, the download directory; the error it
\* returns there, if any, and the calls made by then
Prologue(done, invalid, mkdirFails) ==
    IF done THEN [err |-> ErrCanceled, touched |-> {}]
    ELSE IF invalid THEN [err |-> ErrInvalid, touched |-> {}]
    ELSE IF mkdirFails THEN [err |-> ErrMkdir, touched |-> {"os.MkdirAll"}]
    ELSE [err |-> NoErr, touched |-> {"os.MkdirAll"}]

\* what proxy.StartSingBox can do: no subscription URL (empty list, no error),
\* a failure before the subprocess exists, or a launched subprocess
StartSingBoxOutcomes == {"nosubs", "failed", "started"}

\* a pickProxyEndpoints that hands out the subscription's endpoints although
\* StartSingBox returned an error
pickProxyEndpointsKeepFailed(o) ==
    IF o = "nosubs" THEN <<>> ELSE filterPenalized(ConfiguredEndpoints)

\* pickProxyEndpoints: the endpoints RunWithOptions gets for an outcome of
\* StartSingBox; a started sing-box hands back filterPenalized(endpoints)
pickProxyEndpoints(o) ==
    IF o = "started" THEN filterPenalized(ConfiguredEndpoints) ELSE <<>>

\* opts.ScenarioCount < 1 becomes 1
ScenarioCount(n) == IF n < 1 THEN 1 ELSE n

\* a runCount that takes one worker per endpoint whatever was asked for
RunCountPerEndpoint(n, eps) ==
    IF Len(eps) > 0 THEN Len(eps) ELSE ScenarioCount(n)

\* a runCount capped by max(1, len(assigned)) even without endpoints
RunCountCappedDirect(n, eps) ==
    IF ScenarioCount(n) > Len(eps)
    THEN (IF Len(eps) > 0 THEN Len(eps) ELSE 1)
    ELSE ScenarioCount(n)

\* runCount: the scenario count, capped by the endpoints when there are any
RunCount(n, eps) ==
    IF Len(eps) > 0 /\ ScenarioCount(n) > Len(eps) THEN Len(eps) ELSE ScenarioCount(n)

\* a launch loop that hands the first endpoint's tag to every worker
AssignedTagFirst(eps, i) == IF Len(eps) > 0 THEN eps[1].Tag ELSE ""

\* the proxy a worker is started with: assigned[i], or nothing
AssignedURL(eps, i) == IF Len(eps) > 0 THEN eps[i].URL ELSE ""
AssignedTag(eps, i) == IF Len(eps) > 0 THEN eps[i].Tag ELSE ""

\* the goroutines RunWithOptions starts: runScenario(ctx, ..., pURL, pTag, id, ...)
LaunchedWorkers(n, eps) ==
    [w \in Slots |->
        IF w <= RunCount(n, eps)
        THEN [IdleWorker EXCEPT !.pc = "init",
                                !.url = AssignedURL(eps, w),
                                !.tag = AssignedTag(eps, w)]
        ELSE IdleWorker]

\* RunWithOptions from its entry to the end of the launch loop: the entry
\* check of ctx, os.MkdirAll, pickProxyEndpoints, playwright.Run and Launch, then
\* one goroutine per scenario
RunStart(r) ==
    /\ pc[r] = "registered"
    /\ \E mkdirFails \in BOOLEAN :
        LET p == Prologue(CtxDone(r), batch[r].invalid, mkdirFails) IN
        IF p.err # NoErr
        THEN /\ ReturnEarly(r, p.err, p.touched)
             /\ UNCHANGED <<proc, stopArmed, workers>>
        ELSE \E o \in StartSingBoxOutcomes :
                /\ proc' = [proc EXCEPT ![r] = IF o = "started" THEN "running" ELSE @]
                /\ stopArmed' = [stopArmed EXCEPT ![r] = Len(pickProxyEndpoints(o)) > 0]
                /\ \/ /\ batch' = [batch EXCEPT
                            ![r].picked = TRUE,
                            ![r].proxyErr = (o = "failed"),
                            ![r].endpoints = pickProxyEndpoints(o),
                            ![r].touched = p.touched \cup {"StartSingBox", "playwright.Run"},
                            ![r].results = <<>>, ![r].retErr = ErrBrowser]
                      /\ pc' = [pc EXCEPT ![r] = "returned"]
                      /\ UNCHANGED workers
                   \/ /\ batch' = [batch EXCEPT
                            ![r].picked = TRUE,
                            ![r].proxyErr = (o = "failed"),
                            ![r].endpoints = pickProxyEndpoints(o),
                            ![r].touched = p.touched \cup {"StartSingBox", "playwright.Run"},
                            ![r].runCount = RunCount(batch[r].count, pickProxyEndpoints(o))]
                      /\ workers' = [workers EXCEPT
                            ![r] = LaunchedWorkers(batch[r].count, pickProxyEndpoints(o))]
                      /\ pc' = [pc EXCEPT ![r] = "running"]
    /\ UNCHANGED <<box, penaltyFile, sub, ledgerOps, flow, now, ledger, activeRunCancel, activeRunToken, ctxDone, admitted>>

\* the goroutine pickProxyEndpoints starts: <-ctx.Done(); stop()
StopOnDone(r) ==
    /\ stopArmed[r]
    /\ CtxDone(r)
    /\ proc' = [proc EXCEPT ![r] = "killed"]
    /\ stopArmed' = [stopArmed EXCEPT ![r] = FALSE]
    /\ UNCHANGED <<box, penaltyFile, sub, ledgerOps, flow, now, ledger, activeRunCancel, activeRunToken, pc, ctxDone, batch, workers, admitted>>

\* ---------------------------------------------------------- runScenario

\* proxy.FreezeEndpoint(tag): savePenalty under penaltyMu; an empty tag is a no-op
\* without error; ok is whether the ledger file could be read and written
FreezeEndpoint(l, tag, t, ok) ==
    IF tag = "" THEN [err |-> FALSE, ledger |-> l]
    ELSE IF ~ok THEN [err |-> TRUE, ledger |-> l]
    ELSE [err |-> FALSE, ledger |-> SavePenalty(l, tag, t)]

\* a freeze closure that never reaches the ledger
freezeSkipped(wk, l, t, ok) == [wk |-> wk, ledger |-> l]

\* a freeze closure without the penalized guard
freezeUnguarded(wk, l, t, ok) ==
    IF wk.tag = "" THEN [wk |-> wk, ledger |-> l]
    ELSE IF FreezeEndpoint(l, wk.tag, t, ok).err
         THEN [wk |-> [wk EXCEPT !.ioFailed = TRUE], ledger |-> l]
         ELSE [wk |-> [wk EXCEPT !.penalized = TRUE, !.writes = @ + 1,
                                 !.ioFailed = FALSE],
               ledger |-> FreezeEndpoint(l, wk.tag, t, ok).ledger]

\* runScenario's freeze closure on the worker's locals wk: nothing when already
\* penalized or without a tag; penalized is set only when FreezeEndpoint succeeds
freeze(wk, l, t, ok) ==
    IF wk.penalized \/ wk.tag = "" THEN [wk |-> wk, ledger |-> l]
    ELSE IF FreezeEndpoint(l, wk.tag, t, ok).err
         THEN [wk |-> [wk EXCEPT !.ioFailed = TRUE], ledger |-> l]
         ELSE [wk |-> [wk EXCEPT !.penalized = TRUE, !.writes = @ + 1,
                                 !.ioFailed = FALSE],
               ledger |-> FreezeEndpoint(l, wk.tag, t, ok).ledger]

\* runScenario's fail closure: freeze, then return res with the error
fail(wk, e, l, t, ok) ==
    [wk |-> [freeze(wk, l, t, ok).wk EXCEPT !.err = e],
     ledger |-> freeze(wk, l, t, ok).ledger]

\* a runScenario without the deferred freeze("defer")
returnWithoutDefer(x, t, ok) == [wk |-> [x.wk EXCEPT !.pc = "returned"], ledger |-> x.ledger]

\* runScenario's return: the deferred freeze("defer") runs on what the body left
\* (x: the locals and the ledger), then the caller has the result
return(x, t, ok) ==
    [wk |-> [freeze(x.wk, x.ledger, t, ok).wk EXCEPT !.pc = "returned"],
     ledger |-> freeze(x.wk, x.ledger, t, ok).ledger]

\* steps.DownloadImage(downloadCtx, ...): the terminal outcome of the poll, or an
\* error; a cancellation error only when the context is done
DownloadImage(done) ==
    {<<DownloadOutcomeDownloaded, NoErr>>, <<DownloadOutcomeExhausted, NoErr>>,
     <<DownloadOutcomeNone, NoErr>>, <<DownloadOutcomeNone, ErrDownload>>}
    \cup (IF done THEN {<<DownloadOutcomeNone, ErrCanceled>>} ELSE {})

\* a goroutine that sends its result only when runScenario returned no error
DeliverErrorOnly(r, w, e) ==
    batch' = [batch EXCEPT
        ![r].errCh = IF e # NoErr THEN Append(@, e) ELSE @,
        ![r].resultCh = IF e # NoErr THEN @ ELSE Append(@, w)]

\* channels made without a buffer
ChannelCapUnbuffered(n) == 0

\* make(chan error, runCount), make(chan ScenarioResult, runCount)
ChannelCap(n) == n

\* the goroutine's sends after runScenario returned: the error, if any, on errCh
\* and the result on resultCh; a send waits while its channel is full
Deliver(r, w, e) ==
    /\ e # NoErr => Len(batch[r].errCh) < ChannelCap(batch[r].runCount)
    /\ Len(batch[r].resultCh) < ChannelCap(batch[r].runCount)
    /\ batch' = [batch EXCEPT
          ![r].errCh = IF e # NoErr THEN Append(@, e) ELSE @,
          ![r].resultCh = Append(@, w)]

\* runScenario's entry: ctx.Err() != nil returns before freeze is even defined
ScenarioBegin(r, w) ==
    /\ pc[r] = "running"
    /\ workers[r][w].pc = "init"
    /\ IF CtxDone(r)
       THEN /\ workers' = [workers EXCEPT ![r][w].pc = "returned",
                                          ![r][w].err = ErrCanceled]
            /\ Deliver(r, w, ErrCanceled)
       ELSE /\ workers' = [workers EXCEPT ![r][w].pc = "flow",
                                          ![r][w].entered = TRUE]
            /\ UNCHANGED batch
    /\ UNCHANGED <<box, penaltyFile, sub, ledgerOps, flow, now, ledger, activeRunCancel, activeRunToken, pc, ctxDone, proc, stopArmed, admitted>>

\* the worker's locals, the ledger and the channels after runScenario returned x
Returned(r, w, x) ==
    /\ workers' = [workers EXCEPT ![r][w] = x.wk]
    /\ ledger' = x.ledger
    /\ Deliver(r, w, x.wk.err)

\* runScenario from browser.NewContext to the ctx.Err() check that follows
\* Submit: the first step that errors or does not complete ends in fail(), and
\* so does a context found done after Submit; none of the steps looks at ctx
ScenarioWorkflow(r, w) ==
    /\ pc[r] = "running"
    /\ workers[r][w].pc = "flow"
    /\ \/ \E ok1, ok2 \in BOOLEAN :
            Returned(r, w, return(fail(workers[r][w], ErrStep, ledger, now, ok1),
                                  now, ok2))
       \/ /\ CtxDone(r)
          /\ \E ok1, ok2 \in BOOLEAN :
               Returned(r, w, return(fail(workers[r][w], ErrCanceled, ledger, now, ok1),
                                     now, ok2))
       \/ /\ ~CtxDone(r)
          /\ workers' = [workers EXCEPT ![r][w].pc = "download"]
          /\ UNCHANGED <<ledger, batch>>
    /\ UNCHANGED <<box, penaltyFile, sub, ledgerOps, flow, now, activeRunCancel, activeRunToken, pc, ctxDone,
                   proc, stopArmed, admitted>>

\* runScenario after DownloadImage returned (outcome o, error e): res.Outcome is
\* set, an error goes through fail, downloaded and exhausted freeze, none does not
AfterDownload(wk, o, e, l, t, ok) ==
    IF e # NoErr THEN fail([wk EXCEPT !.outcome = o], e, l, t, ok)
    ELSE IF o \in {DownloadOutcomeDownloaded, DownloadOutcomeExhausted}
         THEN freeze([wk EXCEPT !.outcome = o], l, t, ok)
         ELSE [wk |-> [wk EXCEPT !.outcome = o], ledger |-> l]

\* runScenario's download poll, the switch on its outcome and the return
ScenarioDownload(r, w) ==
    /\ pc[r] = "running"
    /\ workers[r][w].pc = "download"
    /\ \E d \in DownloadImage(CtxDone(r)), ok1, ok2 \in BOOLEAN :
          Returned(r, w, return(AfterDownload(workers[r][w], d[1], d[2],
                                              ledger, now, ok1), now, ok2))
    /\ UNCHANGED <<box, penaltyFile, sub, ledgerOps, flow, now, activeRunCancel, activeRunToken, pc, ctxDone,
                   proc, stopArmed, admitted>>

\* ------------------------------------------- RunWithOptions, after wg.Wait

\* the ScenarioResult a worker put on resultCh, res.Error set from its error
ScenarioResult(r, w) ==
    [ID |-> w, Outcome |-> workers[r][w].outcome, ProxyTag |-> workers[r][w].tag,
     Error |-> workers[r][w].err]

\* results: resultCh drained in the order of the sends
Results(r) ==
    [i \in 1..Len(batch[r].resultCh) |-> ScenarioResult(r, batch[r].resultCh[i])]

\* firstErr: the first error drained from errCh, nil when there is none
FirstErr(ch) == IF ch = <<>> THEN NoErr ELSE Head(ch)

\* anySuccess: some result has outcome downloaded
AnySuccess(res) == \E i \in 1..Len(res) : res[i].Outcome = DownloadOutcomeDownloaded

\* a RunWithOptions that returns firstErr whatever the outcomes
BatchErrorFirst(res, ch) == FirstErr(ch)

\* the error RunWithOptions returns beside the results
BatchError(res, ch) == IF AnySuccess(res) THEN NoErr ELSE FirstErr(ch)

\* wg.Wait() is over: every launched worker has sent its result
AllReturned(r) ==
    \A w \in 1..batch[r].runCount : workers[r][w].pc = "returned"

\* RunWithOptions from wg.Wait to its return
Join(r) ==
    /\ pc[r] = "running"
    /\ AllReturned(r)
    /\ batch' = [batch EXCEPT
          ![r].results = Results(r),
          ![r].retErr = BatchError(Results(r), batch[r].errCh)]
    /\ workers' = [workers EXCEPT ![r] = [w \in Slots |-> IdleWorker]]
    /\ pc' = [pc EXCEPT ![r] = "returned"]
    /\ UNCHANGED <<box, penaltyFile, sub, ledgerOps, flow, now, ledger, activeRunCancel, activeRunToken, ctxDone, proc, stopArmed, admitted>>

\* the handlers' answer to what runWithExclusive returned: 200 without error,
\* 409 "cancelled" when errors.Is(runErr, context.Canceled), 500 otherwise
RunStatus(e) == IF e = NoErr THEN 200 ELSE IF e = ErrCanceled THEN 409 ELSE 500

\* a second critical section that clears the handle whatever the token
ClearHandleAlways(r) == NoRun

\* runWithExclusive, second critical section: only the current run clears
ClearHandle(r) ==
    IF activeRunToken = batch[r].token THEN NoRun ELSE activeRunCancel

\* runWithExclusive's second critical section, then the handler writes the
\* response and returns, which ends r.Context()
Release(r) ==
    /\ pc[r] = "returned"
    /\ activeRunCancel' = ClearHandle(r)
    /\ ctxDone' = [ctxDone EXCEPT ![r] = TRUE]
    /\ batch' = [batch EXCEPT ![r] = IdleBatch]
    /\ pc' = [pc EXCEPT ![r] = "done"]
    /\ UNCHANGED <<box, penaltyFile, sub, ledgerOps, flow, now, ledger, activeRunToken, proc, stopArmed, workers, admitted>>

\* time passes: one freeze window.  The clock is read only by
\* filterPenalized (now.Before(exp)) and savePenalty (now + duration), so
\* time passing matters only while some record has not expired yet.
Tick ==
    /\ now < MaxTicks * FreezeMinutes
    /\ \E t \in DOMAIN ledger : now < ledger[t]
    /\ now' = now + FreezeMinutes
    /\ UNCHANGED <<box, penaltyFile, sub, ledgerOps, flow, ledger, activeRunCancel, activeRunToken, pc, ctxDone,
                   batch, proc, stopArmed, workers, admitted>>

\* everything request r, its batch and its workers can do
RequestStep(r) ==
    \/ HandleRunRejected(r)
    \/ \E n \in 0..MaxCount : HandleRunAccepted(r, n)
    \/ ClientDisconnect(r)
    \/ Register(r)
    \/ RunStart(r)
    \/ StopOnDone(r)
    \/ Join(r)
    \/ Release(r)
    \/ \E w \in Slots :
         \/ ScenarioBegin(r, w)
         \/ ScenarioWorkflow(r, w)
         \/ ScenarioDownload(r, w)

\* the server: MaxReq POST /run requests, any number of POST /cancel
Next ==
    \/ HandleCancel
    \/ Tick
    \/ \E r \in Reqs : RequestStep(r)

Spec == Init /\ [][Next]_vars

\* --------------------------------------------------- one batch on its own

\* the ledger file a start of the process may find: records of an earlier run
InitLedgers ==
    UNION {[S -> {FreezeMinutes}] :
             S \in SUBSET {ConfiguredEndpoints[i].Tag : i \in 1..NumEndpoints}}

InitBatch ==
    /\ now = 0
    /\ ledger \in InitLedgers
    /\ activeRunCancel = NoRun
    /\ activeRunToken = 0
    /\ pc = [r \in Reqs |-> "idle"]
    /\ ctxDone = [r \in Reqs |-> FALSE]
    /\ batch = [r \in Reqs |-> IdleBatch]
    /\ proc = [r \in Reqs |-> "none"]
    /\ stopArmed = [r \in Reqs |-> FALSE]
    /\ workers = [r \in Reqs |-> [w \in Slots |-> IdleWorker]]
    /\ admitted = 0
    /\ flow = IdleFlow
    /\ box = IdleBox
    /\ penaltyFile = IdleFile
    /\ sub = IdleSub
    /\ ledgerOps = IdleOps

\* the one request that is served
Solo == {r \in Reqs : \A q \in Reqs : r <= q}

NextBatch ==
    \/ HandleCancel
    \/ Tick
    \/ \E r \in Solo : RequestStep(r)

\* a single POST /run, with POST /cancel and the client as its environment
SpecBatch == InitBatch /\ [][NextBatch]_vars

\* the same, with the goroutine of RunWithOptions scheduled: once wg.Wait can
\* return, it does
SpecJoin == SpecBatch /\ \A r \in Solo : WF_vars(Join(r))

\* ------------------------------------ one scenario, statement by statement

\* temperatures are counted in tenths: DefaultRunOptions' 1.0 and the upper end
\* 2 of the range handleMultipartRun accepts
DefaultTemperature == 10
MaxFormTemperature == 20

\* the temperatures a caller may give: negative, zero, inside and above the range
Temperatures == {-5, 0, 7, 25}

\* handleJSONRun: opts.Temperature stays DefaultRunOptions' unless
\* req.Temperature > 0
JSONTemperature(t) == IF t > 0 THEN t ELSE DefaultTemperature

\* handleMultipartRun's parse of the form value: 0.0 unless 0 <= t <= 2
FormTemperature(t) == IF t >= 0 /\ t <= MaxFormTemperature THEN t ELSE 0

\* handleMultipartRun: opts.Temperature stays DefaultRunOptions' unless the
\* parsed temperature > 0
MultipartTemperature(t) ==
    IF FormTemperature(t) > 0 THEN FormTemperature(t) ELSE DefaultTemperature

\* opts.Temperature as runScenario gets it: through one of the two handlers of
\* POST /run, or as a caller of RunWithOptions set it
OptsTemperature(via, t) ==
    IF via = "json" THEN JSONTemperature(t)
    ELSE IF via = "multipart" THEN MultipartTemperature(t)
    ELSE t

\* the statements of runScenario in the order of the source
Workflow ==
    <<"new context", "create trace dir", "start tracing", "new page", "goto",
      "dismiss overlays", "accept terms", "accept cookies bar",
      "open model settings", "set output resolution", "set aspect ratio",
      "set temperature", "prompt input", "prompt length", "upload",
      "submit prompt", "context done", "download">>

\* the place of statement n in runScenario
Index(n) == CHOOSE i \in 1..Len(Workflow) : Workflow[i] = n

\* the statement that follows n
After(n) == Workflow[Index(n) + 1]

\* a temperature test that lets 0 through to the step
TemperatureEnabledAtZero(t) == t >= 0

\* runScenario's test before the Set temperature step: opts.Temperature > 0
TemperatureEnabled(t) == t > 0

\* what a step function returns: (true, nil), (false, nil) or (_, err)
StepReturns == {"ok", "not completed", "error"}

\* steps.SetTemperature: (true, nil) at once when temperature <= 0
SetTemperature(t) == IF t <= 0 THEN {"ok"} ELSE StepReturns

\* a step runner that takes (false, nil) for a success
stepLenient(o) ==
    IF o = "error" THEN [err |-> ErrStep, slept |-> FALSE]
    ELSE [err |-> NoErr, slept |-> TRUE]

\* a step closure that sleeps the pause whatever fn returned
stepPauseAlways(o) ==
    IF o = "error" THEN [err |-> ErrStep, slept |-> TRUE]
    ELSE IF o = "not completed" THEN [err |-> ErrNotCompleted, slept |-> TRUE]
    ELSE [err |-> NoErr, slept |-> TRUE]

\* runScenario's step closure on what fn returned: the step's error wrapped for
\* err != nil, "<step> not completed" for !ok, otherwise the pause and nil
step(o) ==
    IF o = "error" THEN [err |-> ErrStep, slept |-> FALSE]
    ELSE IF o = "not completed" THEN [err |-> ErrNotCompleted, slept |-> FALSE]
    ELSE [err |-> NoErr, slept |-> TRUE]

\* what the prompt control may read back: nothing or the prompt
Readbacks == {<<>>, <<"p">>}

\* promptLength: len of InputValue, of InnerText when InputValue is empty
promptLength(value, inner) == IF value = <<>> THEN Len(inner) ELSE Len(value)

\* a scenario that goes on whatever the prompt control reads back
PromptCheckSkipped(length) == NoErr

\* runScenario after Enter prompt: length == 0 is an error
PromptCheck(length) == IF length = 0 THEN ErrPromptEmpty ELSE NoErr

\* the request and the scenario this specification follows
One == 1

\* runScenario is at statement n
At(n) ==
    /\ pc[One] = "running"
    /\ workers[One][One].pc = "flow"
    /\ flow.at = n

\* statement n is begun and returns o: it enters the trail, and late when ctx
\* is done by then
Begin(f, n, o) ==
    [f EXCEPT !.trail = Append(@, n), !.rets = @ \cup {<<n, o>>},
              !.late = IF CtxDone(One) THEN @ \cup {n} ELSE @]

\* statement n succeeded, with or without the pause after it
Succeed(f, n, slept) ==
    [f EXCEPT !.at = After(n), !.done = @ \cup {n},
              !.paused = IF slept THEN @ \cup {n} ELSE @]

\* the deferred func registered after Tracing().Start: Tracing().Stop, then
\* browserCtx.Close(); it runs on return only once it is registered
Exit(f) ==
    IF f.deferred
    THEN [f EXCEPT !.at = "returned", !.tracing = "stopped", !.browserCtx = "closed"]
    ELSE [f EXCEPT !.at = "returned"]

\* runScenario goes on to the next statement
Continue(f) ==
    /\ flow' = f
    /\ UNCHANGED <<ledger, batch, workers>>

\* return fail(reason, e) at statement n: freeze, the deferred funcs, the sends
Fail(f, n, e) ==
    /\ flow' = Exit([f EXCEPT !.failedAt = n])
    /\ \E ok1, ok2 \in BOOLEAN :
          Returned(One, One, return(fail(workers[One][One], e, ledger, now, ok1),
                                    now, ok2))

\* a statement run through the step closure: o is what its function returned
RunStep(n, o) ==
    IF step(o).err # NoErr
    THEN Fail([Begin(flow, n, o) EXCEPT
                 !.paused = IF step(o).slept THEN @ \cup {n} ELSE @],
              n, step(o).err)
    ELSE Continue(Succeed(Begin(flow, n, o), n, step(o).slept))

\* browser.NewContext(ctxOpts)
ScenarioNewContext ==
    /\ At("new context")
    /\ \/ Fail(Begin(flow, "new context", "error"), "new context", ErrStep)
       \/ Continue([Succeed(Begin(flow, "new context", "ok"), "new context", FALSE)
                      EXCEPT !.browserCtx = "open"])
    /\ UNCHANGED <<box, penaltyFile, sub, ledgerOps, now, activeRunCancel, activeRunToken, pc, ctxDone, proc,
                   stopArmed, admitted>>

\* os.MkdirAll(traceDir): its failure returns with the context left open
ScenarioTraceDir ==
    /\ At("create trace dir")
    /\ \/ Fail(Begin(flow, "create trace dir", "error"), "create trace dir", ErrStep)
       \/ Continue(Succeed(Begin(flow, "create trace dir", "ok"), "create trace dir", FALSE))
    /\ UNCHANGED <<box, penaltyFile, sub, ledgerOps, now, activeRunCancel, activeRunToken, pc, ctxDone, proc,
                   stopArmed, admitted>>

\* browserCtx.Tracing().Start, and after it the defer of the stop-and-close
ScenarioStartTracing ==
    /\ At("start tracing")
    /\ \/ Fail(Begin(flow, "start tracing", "error"), "start tracing", ErrStep)
       \/ Continue([Succeed(Begin(flow, "start tracing", "ok"), "start tracing", FALSE)
                      EXCEPT !.tracing = "on", !.deferred = TRUE])
    /\ UNCHANGED <<box, penaltyFile, sub, ledgerOps, now, activeRunCancel, activeRunToken, pc, ctxDone, proc,
                   stopArmed, admitted>>

\* browserCtx.NewPage()
ScenarioNewPage ==
    /\ At("new page")
    /\ \/ Fail(Begin(flow, "new page", "error"), "new page", ErrStep)
       \/ Continue(Succeed(Begin(flow, "new page", "ok"), "new page", FALSE))
    /\ UNCHANGED <<box, penaltyFile, sub, ledgerOps, now, activeRunCancel, activeRunToken, pc, ctxDone, proc,
                   stopArmed, admitted>>

\* page.Goto(opts.TargetURL) with its 30 s timeout
ScenarioGoto ==
    /\ At("goto")
    /\ \/ Fail(Begin(flow, "goto", "error"), "goto", ErrStep)
       \/ Continue(Succeed(Begin(flow, "goto", "ok"), "goto", FALSE))
    /\ UNCHANGED <<box, penaltyFile, sub, ledgerOps, now, activeRunCancel, activeRunToken, pc, ctxDone, proc,
                   stopArmed, admitted>>

\* the two WaitForLoadState, BringToFront, the click and Escape: their errors
\* are discarded, and SubStepPause follows
ScenarioDismiss ==
    /\ At("dismiss overlays")
    /\ Continue(Succeed(Begin(flow, "dismiss overlays", "ok"), "dismiss overlays", FALSE))
    /\ UNCHANGED <<box, penaltyFile, sub, ledgerOps, now, activeRunCancel, activeRunToken, pc, ctxDone, proc,
                   stopArmed, admitted>>

\* step("Accept terms dialog", ...)
ScenarioAcceptTerms ==
    /\ At("accept terms")
    /\ \E o \in StepReturns : RunStep("accept terms", o)
    /\ UNCHANGED <<box, penaltyFile, sub, ledgerOps, now, activeRunCancel, activeRunToken, pc, ctxDone, proc,
                   stopArmed, admitted>>

\* steps.AcceptCookieBar, outside the step closure: an error fails, a bar that
\* was accepted is followed by the pause, a bar that is not there by nothing
ScenarioCookieBar ==
    /\ At("accept cookies bar")
    /\ \/ Fail(Begin(flow, "accept cookies bar", "error"), "accept cookies bar", ErrStep)
       \/ Continue(Succeed(Begin(flow, "accept cookies bar", "ok"), "accept cookies bar", TRUE))
       \/ Continue([Begin(flow, "accept cookies bar", "not completed")
                      EXCEPT !.at = After("accept cookies bar")])
    /\ UNCHANGED <<box, penaltyFile, sub, ledgerOps, now, activeRunCancel, activeRunToken, pc, ctxDone, proc,
                   stopArmed, admitted>>

\* step("Open model settings"), step("Set output resolution to ..."),
\* step("Set aspect ratio to ...")
ScenarioSettings ==
    /\ \E n \in {"open model settings", "set output resolution", "set aspect ratio"} :
          /\ At(n)
          /\ \E o \in StepReturns : RunStep(n, o)
    /\ UNCHANGED <<box, penaltyFile, sub, ledgerOps, now, activeRunCancel, activeRunToken, pc, ctxDone, proc,
                   stopArmed, admitted>>

\* if opts.Temperature > 0 { step("Set temperature to ...") } else { skip }
ScenarioTemperature ==
    /\ At("set temperature")
    /\ IF TemperatureEnabled(flow.temperature)
       THEN \E o \in SetTemperature(flow.temperature) : RunStep("set temperature", o)
       ELSE Continue([flow EXCEPT !.at = After("set temperature")])
    /\ UNCHANGED <<box, penaltyFile, sub, ledgerOps, now, activeRunCancel, activeRunToken, pc, ctxDone, proc,
                   stopArmed, admitted>>

\* step("Enter prompt text", ...)
ScenarioPrompt ==
    /\ At("prompt input")
    /\ \E o \in StepReturns : RunStep("prompt input", o)
    /\ UNCHANGED <<box, penaltyFile, sub, ledgerOps, now, activeRunCancel, activeRunToken, pc, ctxDone, proc,
                   stopArmed, admitted>>

\* length := promptLength(page); length == 0 fails
ScenarioPromptLength ==
    /\ At("prompt length")
    /\ \E value, inner \in Readbacks :
          LET f == [Begin(flow, "prompt length",
                          IF promptLength(value, inner) = 0 THEN "not completed"
                                                            ELSE "ok")
                      EXCEPT !.length = promptLength(value, inner)] IN
          IF PromptCheck(f.length) # NoErr
          THEN Fail(f, "prompt length", PromptCheck(f.length))
          ELSE Continue(Succeed(f, "prompt length", FALSE))
    /\ UNCHANGED <<box, penaltyFile, sub, ledgerOps, now, activeRunCancel, activeRunToken, pc, ctxDone, proc,
                   stopArmed, admitted>>

\* if opts.ImagePath != "" { step("Upload local image") } else { skip, then
\* time.Sleep(opts.StepPause) }
ScenarioUpload ==
    /\ At("upload")
    /\ IF flow.image
       THEN \E o \in StepReturns : RunStep("upload", o)
       ELSE Continue([flow EXCEPT !.at = After("upload"),
                                  !.paused = @ \cup {"upload"}])
    /\ UNCHANGED <<box, penaltyFile, sub, ledgerOps, now, activeRunCancel, activeRunToken, pc, ctxDone, proc,
                   stopArmed, admitted>>

\* step("Submit prompt", ...)
ScenarioSubmit ==
    /\ At("submit prompt")
    /\ \E o \in StepReturns : RunStep("submit prompt", o)
    /\ UNCHANGED <<box, penaltyFile, sub, ledgerOps, now, activeRunCancel, activeRunToken, pc, ctxDone, proc,
                   stopArmed, admitted>>

\* if err := ctx.Err(); err != nil { return fail("context done", err) }
ScenarioCtxCheck ==
    /\ At("context done")
    /\ IF CtxDone(One)
       THEN Fail(flow, "context done", ErrCanceled)
       ELSE Continue([flow EXCEPT !.at = After("context done")])
    /\ UNCHANGED <<box, penaltyFile, sub, ledgerOps, now, activeRunCancel, activeRunToken, pc, ctxDone, proc,
                   stopArmed, admitted>>

\* steps.DownloadImage, the switch on its outcome, the return and its defers
ScenarioAwait ==
    /\ At("download")
    /\ flow' = Exit([Begin(flow, "download", "ok") EXCEPT !.done = @ \cup {"download"}])
    /\ \E d \in DownloadImage(CtxDone(One)), ok1, ok2 \in BOOLEAN :
          Returned(One, One, return(AfterDownload(workers[One][One], d[1], d[2],
                                                  ledger, now, ok1), now, ok2))
    /\ UNCHANGED <<box, penaltyFile, sub, ledgerOps, now, activeRunCancel, activeRunToken, pc, ctxDone, proc,
                   stopArmed, admitted>>

\* the options of the one call: through a handler of POST /run (valid target and
\* prompt, any temperature, with or without an image) or straight to
\* RunWithOptions with a temperature of the caller's and any target and prompt
ScenarioOptions ==
    {[IdleFlow EXCEPT !.via = via, !.submitted = t, !.image = img,
                      !.temperature = OptsTemperature(via, t),
                      !.at = "new context"] :
        via \in {"json", "multipart", "api"}, t \in Temperatures, img \in BOOLEAN}

\* runWithExclusive has registered the call; RunWithOptions is about to be entered
InitScenario ==
    /\ now = 0
    /\ ledger = EmptyLedger
    /\ activeRunCancel = One
    /\ activeRunToken = 1
    /\ pc = [r \in Reqs |-> IF r = One THEN "registered" ELSE "idle"]
    /\ ctxDone = [r \in Reqs |-> FALSE]
    /\ flow \in ScenarioOptions
    /\ \E inv \in BOOLEAN :
          /\ inv => flow.via = "api"
          /\ batch = [r \in Reqs |->
                IF r = One
                THEN [IdleBatch EXCEPT !.asked = 1, !.count = 1, !.token = 1,
                                       !.invalid = inv]
                ELSE IdleBatch]
    /\ proc = [r \in Reqs |-> "none"]
    /\ stopArmed = [r \in Reqs |-> FALSE]
    /\ workers = [r \in Reqs |-> [w \in Slots |-> IdleWorker]]
    /\ admitted = 1
    /\ sub = IdleSub
    /\ ledgerOps = IdleOps
    /\ box = IdleBox
    /\ penaltyFile = IdleFile

NextScenario ==
    \/ HandleCancel
    \/ RunStart(One)
    \/ StopOnDone(One)
    \/ ScenarioBegin(One, One)
    \/ ScenarioNewContext
    \/ ScenarioTraceDir
    \/ ScenarioStartTracing
    \/ ScenarioNewPage
    \/ ScenarioGoto
    \/ ScenarioDismiss
    \/ ScenarioAcceptTerms
    \/ ScenarioCookieBar
    \/ ScenarioSettings
    \/ ScenarioTemperature
    \/ ScenarioPrompt
    \/ ScenarioPromptLength
    \/ ScenarioUpload
    \/ ScenarioSubmit
    \/ ScenarioCtxCheck
    \/ ScenarioAwait
    \/ Join(One)

\* one call of RunWithOptions for one scenario, followed statement by statement,
\* with POST /cancel as its environment
SpecScenario == InitScenario /\ [][NextScenario]_vars

\* ------------------------------------------- the subscription outbounds

\* a string of the subscription is a sequence of pieces: a piece is a run of
\* white space (Space) or a word in some spelling
Space == " "

\* strings.ToLower, piece by piece
ToLowerPiece(p) ==
    CASE p = "VMess" -> "vmess"
      [] p = "Selector" -> "selector"
      [] p = "DIRECT" -> "direct"
      [] OTHER -> p

ToLower(s) == [i \in 1..Len(s) |-> ToLowerPiece(s[i])]

RECURSIVE TrimLeft(_)
TrimLeft(s) == IF s # <<>> /\ Head(s) = Space THEN TrimLeft(Tail(s)) ELSE s

RECURSIVE TrimRight(_)
TrimRight(s) ==
    IF s # <<>> /\ s[Len(s)] = Space THEN TrimRight(SubSeq(s, 1, Len(s) - 1)) ELSE s

\* strings.TrimSpace
TrimSpace(s) == TrimRight(TrimLeft(s))

\* strings.Contains, for a keyword that is one piece
Contains(s, kw) == \E i \in 1..Len(s) : s[i] = kw

\* strconv of a small number
Itoa(n) == <<"0", "1", "2", "3", "4", "5", "6", "7", "8", "9">>[n + 1]

\* the types isRealOutboundType refuses
NonRoutable == {"selector", "urltest", "dns", "direct", "block", "tun", "mixed"}

\* an isRealOutboundType that compares the type as it is written
isRealOutboundTypeAsWritten(t) == t # <<>> /\ \A x \in NonRoutable : t # <<x>>

\* isRealOutboundType: the type is trimmed and lower-cased first
isRealOutboundType(t) ==
    LET s == ToLower(TrimSpace(t)) IN
    IF \E x \in NonRoutable : s = <<x>> THEN FALSE ELSE s # <<>>

\* shouldExcludeTag's six keywords, in its order, in Latin letters
Blacklist ==
    {"auto-select", "failover", "plan-expired", "traffic-left", "doc-download",
     "more-nodes"}

\* shouldExcludeTag
shouldExcludeTag(tag) == \E kw \in Blacklist : Contains(tag, kw)

\* hasRealOutbounds
hasRealOutbounds(items) == \E i \in 1..Len(items) : isRealOutboundType(items[i].type)

\* the outbounds a subscription may list: a node, a node whose tag carries a
\* blacklist keyword, a selector written with capitals and blanks, an entry
\* whose type is blank, and a node without a tag
RawItems ==
    { [type |-> <<"vmess">>, tag |-> <<"hk">>],
      [type |-> <<"vmess">>, tag |-> <<"hk", Space, "auto-select">>],
      [type |-> <<Space, "Selector", Space>>, tag |-> <<"hk">>],
      [type |-> <<Space>>, tag |-> <<"jp">>],
      [type |-> <<"VMess", Space>>, tag |-> <<Space>>] }

RECURSIVE ItemLists(_)
ItemLists(n) ==
    IF n = 0 THEN {<<>>}
    ELSE ItemLists(n - 1) \cup
         {Append(l, x) : l \in {m \in ItemLists(n - 1) : Len(m) = n - 1}, x \in RawItems}

\* the ways fetchSubscription fails: the request, an empty body, a body that
\* is not JSON, a document without outbounds
FetchErrors == {"request failed", "empty response", "not JSON", "no outbounds"}

\* what a subscription URL answers
Responses == FetchErrors \cup ItemLists(MaxItems)

\* fetchSubscription: an error, or the listed outbounds of a real type
fetchSubscription(resp) ==
    IF resp \in FetchErrors
    THEN [err |-> resp, out |-> <<>>]
    ELSE [err |-> NoErr, out |-> SelectSeq(resp, LAMBDA m : isRealOutboundType(m.type))]

\* normalizeOutbounds from its i-th item on; orig keeps the tag the entry had
\* before it was rewritten
RECURSIVE Normalize(_, _, _, _, _)
Normalize(items, i, prefix, seen, out) ==
    IF i > Len(items) THEN [out |-> out, seen |-> seen]
    ELSE LET ob == items[i]
             trimmed == TrimSpace(ob.tag)
             origTag == IF trimmed = <<>> THEN <<"node-", Itoa(i)>> ELSE trimmed
             tag == prefix \o origTag
             known == tag \in DOMAIN seen
             n == IF known THEN seen[tag] + 1 ELSE 1
             seenNext == [t \in DOMAIN seen \cup {tag} |-> IF t = tag THEN n ELSE seen[t]]
             entry == [type |-> ob.type,
                       tag |-> IF known THEN tag \o <<"-", Itoa(n)>> ELSE tag,
                       orig |-> origTag]
         IN IF shouldExcludeTag(origTag)
            THEN Normalize(items, i + 1, prefix, seen, out)
            ELSE Normalize(items, i + 1, prefix, seenNext, Append(out, entry))

normalizeOutbounds(items, prefix, seen) == Normalize(items, 1, prefix, seen, <<>>)

\* fmt.Sprintf("sub%d-", idx+1), idx counted from 1 here
Prefix(idx) == <<"sub", Itoa(idx), "-">>

\* the cache file when loadOrFetchOutbounds is called: absent, not JSON, a list
\* without a real outbound, a list with one
CacheFiles ==
    { [state |-> "missing", items |-> <<>>],
      [state |-> "corrupt", items |-> <<>>],
      [state |-> "list", items |-> <<>>],
      [state |-> "list",
       items |-> <<[type |-> <<"direct">>, tag |-> <<"direct">>, orig |-> <<"direct">>]>>],
      [state |-> "list",
       items |-> <<[type |-> <<"vmess">>, tag |-> Prefix(1) \o <<"old">>, orig |-> <<"old">>]>>] }

\* loadOrFetchOutbounds returns
SubReturn(s, out, err) == [s EXCEPT !.pc = "returned", !.out = out, !.err = err]

\* a loadOrFetchOutbounds that goes on to the next URL when a fetch fails
AfterFetchSkipFailed(s, r) ==
    LET n == normalizeOutbounds(r.out, Prefix(s.idx), s.seen) IN
    [s EXCEPT !.idx = @ + 1, !.seen = n.seen, !.merged = @ \o n.out]

\* loadOrFetchOutbounds, the body of its loop once fetchSubscription returned r
AfterFetch(s, r) ==
    IF r.err # NoErr
    THEN SubReturn(s, <<>>, r.err)
    ELSE LET n == normalizeOutbounds(r.out, Prefix(s.idx), s.seen) IN
         [s EXCEPT !.idx = @ + 1, !.seen = n.seen, !.merged = @ \o n.out]

\* a call of loadOrFetchOutbounds with the given cache file and number of URLs;
\* fetched keeps what fetchSubscription returned as error for each URL tried,
\* listed how many outbounds the fetched subscriptions listed, wrote whether
\* writeJSONFile was called, had the cache file at the call
SubStart(cache, urls) ==
    [pc |-> "start", cache |-> cache, urls |-> urls, idx |-> 1,
     seen |-> [t \in {} |-> 0], merged |-> <<>>, fetched |-> <<>>,
     listed |-> 0, out |-> <<>>, err |-> NoErr, wrote |-> FALSE, had |-> cache]

\* loadOrFetchOutbounds reads the cache file: a list with a real outbound is
\* returned as it is, anything else is fetched anew
SubReadCache ==
    /\ sub.pc = "start"
    /\ sub' = IF sub.cache.state = "list" /\ hasRealOutbounds(sub.cache.items)
              THEN SubReturn(sub, sub.cache.items, NoErr)
              ELSE [sub EXCEPT !.pc = "fetching"]
    /\ UNCHANGED <<box, penaltyFile, ledgerOps, flow, now, ledger, activeRunCancel, activeRunToken, pc,
                   ctxDone, batch, proc, stopArmed, workers, admitted>>

\* loadOrFetchOutbounds fetches the next URL
SubFetch ==
    /\ sub.pc = "fetching"
    /\ sub.idx <= sub.urls
    /\ \E resp \in Responses :
        LET r == fetchSubscription(resp) IN
        sub' = AfterFetch([sub EXCEPT !.fetched = Append(@, r.err),
                                      !.listed = IF r.err = NoErr THEN @ + Len(resp) ELSE @], r)
    /\ UNCHANGED <<box, penaltyFile, ledgerOps, flow, now, ledger, activeRunCancel, activeRunToken, pc,
                   ctxDone, batch, proc, stopArmed, workers, admitted>>

\* what os.WriteFile can do to the cache file: write it, fail before it is
\* opened, fail after it was truncated
WriteOutcomes == {"written", "not opened", "truncated"}

\* loadOrFetchOutbounds after its loop: an empty merged list is an error, any
\* other is written to the cache file and returned
SubFinish ==
    /\ sub.pc = "fetching"
    /\ sub.idx > sub.urls
    /\ IF sub.merged = <<>>
       THEN sub' = SubReturn(sub, <<>>, "no outbounds in the subscriptions")
       ELSE \E o \in WriteOutcomes :
              sub' = CASE o = "written" ->
                            SubReturn([sub EXCEPT !.wrote = TRUE,
                                                  !.cache = [state |-> "list", items |-> sub.merged]],
                                      sub.merged, NoErr)
                       [] o = "not opened" ->
                            SubReturn([sub EXCEPT !.wrote = TRUE], <<>>, "write failed")
                       [] o = "truncated" ->
                            SubReturn([sub EXCEPT !.wrote = TRUE,
                                                  !.cache = [state |-> "corrupt", items |-> <<>>]],
                                      <<>>, "write failed")
    /\ UNCHANGED <<box, penaltyFile, ledgerOps, flow, now, ledger, activeRunCancel, activeRunToken, pc,
                   ctxDone, batch, proc, stopArmed, workers, admitted>>

InitSubscription ==
    /\ now = 0
    /\ ledger = EmptyLedger
    /\ activeRunCancel = NoRun
    /\ activeRunToken = 0
    /\ pc = [r \in Reqs |-> "idle"]
    /\ ctxDone = [r \in Reqs |-> FALSE]
    /\ batch = [r \in Reqs |-> IdleBatch]
    /\ proc = [r \in Reqs |-> "none"]
    /\ stopArmed = [r \in Reqs |-> FALSE]
    /\ workers = [r \in Reqs |-> [w \in Slots |-> IdleWorker]]
    /\ admitted = 0
    /\ flow = IdleFlow
    /\ box = IdleBox
    /\ penaltyFile = IdleFile
    /\ ledgerOps = IdleOps
    /\ sub \in {SubStart(c, n) : c \in CacheFiles, n \in 1..MaxUrls}

NextSubscription ==
    \/ SubReadCache
    \/ SubFetch
    \/ SubFinish

\* one call of loadOrFetchOutbounds
SpecSubscription == InitSubscription /\ [][NextSubscription]_vars

\* --------------------------------------- the ledger file and its mutex

\* the workers that call FreezeEndpoint, worker w for the tag of endpoint w
Freezers == 1..MaxCount

FreezeTag(w) == EndpointTags[w]

\* penaltyMu is free
Unlocked == 0

\* the workers are about to call FreezeEndpoint and a StartSingBox is about to
\* call filterPenalized: mu is the holder of penaltyMu, writing the worker whose
\* os.WriteFile has truncated the file and not yet written it, penalties the map
\* each call got from readPenaltiesFile; held and torn keep whether
\* filterPenalized's read was made with penaltyMu held, and during a write
LedgerStart ==
    [pc |-> "calls",
     mu |-> Unlocked,
     writing |-> Unlocked,
     at |-> [w \in Freezers |-> "idle"],
     penalties |-> [w \in Freezers |-> EmptyLedger],
     filter |-> [at |-> "idle", penalties |-> EmptyLedger, held |-> FALSE,
                 torn |-> FALSE, out |-> <<>>]]

\* FreezeEndpoint: penaltyMu.Lock()
FreezeLock(w) ==
    /\ ledgerOps.pc = "calls"
    /\ ledgerOps.at[w] = "idle"
    /\ ledgerOps.mu = Unlocked
    /\ ledgerOps' = [ledgerOps EXCEPT !.mu = w, !.at[w] = "locked"]
    /\ UNCHANGED <<box, penaltyFile, sub, flow, now, ledger, activeRunCancel, activeRunToken, pc, ctxDone,
                   batch, proc, stopArmed, workers, admitted>>

\* savePenalty: readPenaltiesFile
FreezeRead(w) ==
    /\ ledgerOps.pc = "calls"
    /\ ledgerOps.at[w] = "locked"
    /\ ledgerOps' = [ledgerOps EXCEPT !.penalties[w] = ledger, !.at[w] = "read"]
    /\ UNCHANGED <<box, penaltyFile, sub, flow, now, ledger, activeRunCancel, activeRunToken, pc, ctxDone,
                   batch, proc, stopArmed, workers, admitted>>

\* writePenaltiesFile: os.WriteFile opens the file, which truncates it
FreezeTruncate(w) ==
    /\ ledgerOps.pc = "calls"
    /\ ledgerOps.at[w] = "read"
    /\ ledger' = EmptyLedger
    /\ ledgerOps' = [ledgerOps EXCEPT !.writing = w, !.at[w] = "writing"]
    /\ UNCHANGED <<box, penaltyFile, sub, flow, now, activeRunCancel, activeRunToken, pc, ctxDone,
                   batch, proc, stopArmed, workers, admitted>>

\* writePenaltiesFile: os.WriteFile writes the map it read, with the new record
FreezeWrite(w) ==
    /\ ledgerOps.pc = "calls"
    /\ ledgerOps.at[w] = "writing"
    /\ ledger' = SavePenalty(ledgerOps.penalties[w], FreezeTag(w), now)
    /\ ledgerOps' = [ledgerOps EXCEPT !.writing = Unlocked, !.at[w] = "written"]
    /\ UNCHANGED <<box, penaltyFile, sub, flow, now, activeRunCancel, activeRunToken, pc, ctxDone,
                   batch, proc, stopArmed, workers, admitted>>

\* FreezeEndpoint returns: the deferred penaltyMu.Unlock()
FreezeUnlock(w) ==
    /\ ledgerOps.pc = "calls"
    /\ ledgerOps.at[w] = "written"
    /\ ledgerOps' = [ledgerOps EXCEPT !.mu = Unlocked, !.at[w] = "done"]
    /\ UNCHANGED <<box, penaltyFile, sub, flow, now, ledger, activeRunCancel, activeRunToken, pc, ctxDone,
                   batch, proc, stopArmed, workers, admitted>>

\* filterPenalized: readPenaltiesFile, without penaltyMu.Lock()
FilterRead ==
    /\ ledgerOps.pc = "calls"
    /\ ledgerOps.filter.at = "idle"
    /\ ledgerOps' = [ledgerOps EXCEPT !.filter.penalties = ledger,
                                      !.filter.held = FALSE,
                                      !.filter.torn = (ledgerOps.writing # Unlocked),
                                      !.filter.at = "read"]
    /\ UNCHANGED <<box, penaltyFile, sub, flow, now, ledger, activeRunCancel, activeRunToken, pc, ctxDone,
                   batch, proc, stopArmed, workers, admitted>>

\* filterPenalized: the endpoints without an unexpired record in the map it read
FilterReturn ==
    /\ ledgerOps.pc = "calls"
    /\ ledgerOps.filter.at = "read"
    /\ ledgerOps' = [ledgerOps EXCEPT
                        !.filter.out = FilterSeq(ConfiguredEndpoints, ledgerOps.filter.penalties, now),
                        !.filter.at = "done"]
    /\ UNCHANGED <<box, penaltyFile, sub, flow, now, ledger, activeRunCancel, activeRunToken, pc, ctxDone,
                   batch, proc, stopArmed, workers, admitted>>

InitLedger ==
    /\ now = 0
    /\ ledger \in InitLedgers
    /\ activeRunCancel = NoRun
    /\ activeRunToken = 0
    /\ pc = [r \in Reqs |-> "idle"]
    /\ ctxDone = [r \in Reqs |-> FALSE]
    /\ batch = [r \in Reqs |-> IdleBatch]
    /\ proc = [r \in Reqs |-> "none"]
    /\ stopArmed = [r \in Reqs |-> FALSE]
    /\ workers = [r \in Reqs |-> [w \in Slots |-> IdleWorker]]
    /\ admitted = 0
    /\ flow = IdleFlow
    /\ box = IdleBox
    /\ penaltyFile = IdleFile
    /\ sub = IdleSub
    /\ ledgerOps = LedgerStart

NextLedger ==
    \/ \E w \in Freezers :
        \/ FreezeLock(w)
        \/ FreezeRead(w)
        \/ FreezeTruncate(w)
        \/ FreezeWrite(w)
        \/ FreezeUnlock(w)
    \/ FilterRead
    \/ FilterReturn

\* the workers of a batch freeze their endpoints while the StartSingBox of
\* another batch filters the endpoints
SpecLedger == InitLedger /\ [][NextLedger]_vars

\* ------------------------------------------------ the tags of one subscription

\* the node names a subscription may carry: a name, the same name with a counter
\* already at its end, another name, a blank name
NodeNames == {<<"hk">>, <<"hk", "-", "2">>, <<"jp">>, <<Space>>}

RECURSIVE NameLists(_)
NameLists(n) ==
    IF n = 0 THEN {<<>>}
    ELSE NameLists(n - 1) \cup
         {Append(l, x) : l \in {m \in NameLists(n - 1) : Len(m) = n - 1}, x \in NodeNames}

\* a subscription document listing one node of a real type per name
NamedNodes(names) == [i \in 1..Len(names) |-> [type |-> <<"vmess">>, tag |-> names[i]]]

\* loadOrFetchOutbounds fetches the next URL, which lists the nodes of some
\* names: fetchSubscription returns those of a real type and no error
SubFetchNamed ==
    /\ sub.pc = "fetching"
    /\ sub.idx <= sub.urls
    /\ \E names \in NameLists(MaxNames) :
        LET r == [err |-> NoErr,
                  out |-> SelectSeq(NamedNodes(names), LAMBDA m : isRealOutboundType(m.type))] IN
        sub' = AfterFetch([sub EXCEPT !.fetched = Append(@, r.err),
                                      !.listed = @ + Len(names)], r)
    /\ UNCHANGED <<box, penaltyFile, ledgerOps, flow, now, ledger, activeRunCancel, activeRunToken,
                   pc, ctxDone, batch, proc, stopArmed, workers, admitted>>

InitTags ==
    /\ now = 0
    /\ ledger = EmptyLedger
    /\ activeRunCancel = NoRun
    /\ activeRunToken = 0
    /\ pc = [r \in Reqs |-> "idle"]
    /\ ctxDone = [r \in Reqs |-> FALSE]
    /\ batch = [r \in Reqs |-> IdleBatch]
    /\ proc = [r \in Reqs |-> "none"]
    /\ stopArmed = [r \in Reqs |-> FALSE]
    /\ workers = [r \in Reqs |-> [w \in Slots |-> IdleWorker]]
    /\ admitted = 0
    /\ flow = IdleFlow
    /\ box = IdleBox
    /\ penaltyFile = IdleFile
    /\ ledgerOps = IdleOps
    /\ sub \in {SubStart(c, 1) : c \in {f \in CacheFiles : f.state # "list"}}

NextTags ==
    \/ SubReadCache
    \/ SubFetchNamed
    \/ SubFinish

\* one call of loadOrFetchOutbounds without a cache file, for one subscription and
\* every list of node names
SpecTags == InitTags /\ [][NextTags]_vars

\* ------------------------------------------------ the penalty file as text

\* the tags FreezeEndpoint is called with and filterPenalized looks up: two tags
\* of plain node names and the tag of a node name that holds a comma
FileTags == {<<"sub1-hk">>, <<"sub1-jp">>, <<"sub1-hk", ",", "iplc">>}

\* the endpoints filterPenalized is given
FileEndpoints == {[Tag |-> t] : t \in FileTags}

\* the decimal spelling of the times of this model, a multiple of the freeze
\* window each (fmt's %d of v.Unix())
Stamps == <<"0", "15", "30", "45", "60">>

\* the times that have a spelling
Times == {(i - 1) * FreezeMinutes : i \in 1..Len(Stamps)}

FormatInt(n) == <<Stamps[(n \div FreezeMinutes) + 1]>>

\* strconv.ParseInt(s, 10, 64) succeeds
IsInt(s) == Len(s) = 1 /\ \E i \in 1..Len(Stamps) : Stamps[i] = s[1]

ParseInt(s) == (CHOOSE i \in 1..Len(Stamps) : Stamps[i] = s[1]) * FreezeMinutes - FreezeMinutes

\* writePenaltiesFile's line: fmt.Sprintf("%s,%d", k, v.Unix())
FormatLine(tag, exp) == tag \o <<",">> \o FormatInt(exp)

\* strings.SplitN(line, ",", 2): the pieces before and after the first comma, or
\* the line alone when it has no comma
SplitN2(line) ==
    IF Contains(line, ",")
    THEN LET c == CHOOSE i \in 1..Len(line) :
                     line[i] = "," /\ \A j \in 1..(i - 1) : line[j] # ","
         IN <<SubSeq(line, 1, c - 1), SubSeq(line, c + 1, Len(line))>>
    ELSE <<line>>

\* readPenaltiesFile's loop body: the record a line yields, if it yields one
ParsesAs(line, tag, exp) ==
    LET parts == SplitN2(TrimSpace(line)) IN
    /\ TrimSpace(line) # <<>>
    /\ Len(parts) = 2
    /\ IsInt(TrimSpace(parts[2]))
    /\ TrimSpace(parts[1]) = tag
    /\ ParseInt(TrimSpace(parts[2])) = exp

\* the keys readPenaltiesFile finds in the lines
ParsedTags(lines) ==
    {TrimSpace(SplitN2(TrimSpace(l))[1]) :
        l \in {m \in lines : \E t \in {TrimSpace(SplitN2(TrimSpace(m))[1])} :
                               \E e \in Times : ParsesAs(m, t, e)}}

\* readPenaltiesFile: a file that does not exist is an empty map, a file that
\* cannot be read an error, lines that do not parse are skipped
readPenaltiesFile(f) ==
    IF ~f.exists THEN [err |-> FALSE, penalties |-> [t \in {} |-> 0]]
    ELSE IF ~f.readable THEN [err |-> TRUE, penalties |-> [t \in {} |-> 0]]
    ELSE [err |-> FALSE,
          penalties |-> [t \in ParsedTags(f.lines) |->
                            CHOOSE e \in Times :
                                \E l \in f.lines : ParsesAs(l, t, e)]]

\* writePenaltiesFile: an empty map removes the file; otherwise os.WriteFile
\* writes one line per record (sorted, which the set of lines leaves out), fails
\* before the file is opened, or fails after it was truncated
writePenaltiesFile(f, penalties, o) ==
    IF DOMAIN penalties = {}
    THEN [err |-> FALSE, file |-> [f EXCEPT !.exists = FALSE, !.lines = {}]]
    ELSE CASE o = "written" ->
                [err |-> FALSE,
                 file |-> [f EXCEPT !.exists = TRUE,
                                    !.lines = {FormatLine(t, penalties[t]) : t \in DOMAIN penalties}]]
           [] o = "not opened" -> [err |-> TRUE, file |-> f]
           [] o = "truncated" ->
                [err |-> TRUE, file |-> [f EXCEPT !.exists = TRUE, !.lines = {}]]

\* savePenalty: read, set the record of the tag, write; a read error returns
\* before anything is written
savePenalty(f, tag, t, o) ==
    LET r == readPenaltiesFile(f) IN
    IF r.err THEN [err |-> TRUE, file |-> f]
    ELSE writePenaltiesFile(f,
            [x \in (DOMAIN r.penalties) \cup {tag} |->
                IF x = tag THEN t + FreezeMinutes ELSE r.penalties[x]], o)

\* FreezeEndpoint on the file: the tag is trimmed, a blank tag is a no-op
FreezeEndpointFile(f, tag, t, o) ==
    IF TrimSpace(tag) = <<>> THEN [err |-> FALSE, file |-> f]
    ELSE savePenalty(f, TrimSpace(tag), t, o)

\* a filterPenalized that hands out nothing when the file cannot be read
filterPenalizedFailClosed(f, eps, t) ==
    LET r == readPenaltiesFile(f) IN
    IF r.err THEN {} ELSE {ep \in eps : ~IsPenalized(r.penalties, ep.Tag, t)}

\* filterPenalized on the file: the read error is dropped, and with it every
\* record; the endpoints as a set, their order is the one given
filterPenalizedFile(f, eps, t) ==
    LET r == readPenaltiesFile(f) IN
    {ep \in eps : ~IsPenalized(r.penalties, ep.Tag, t)}

\* the penalty file does not exist, nothing was called yet
FileStart ==
    [pc |-> "file",
     file |-> [exists |-> FALSE, readable |-> TRUE, lines |-> {}],
     last |-> [op |-> "none"]]

\* a call of FreezeEndpoint(tag); last keeps the call: its tag, the time, the
\* file before it, how the write went and what it returned
FileFreeze ==
    /\ penaltyFile.pc = "file"
    /\ \E tag \in FileTags \cup {<<Space>>}, o \in WriteOutcomes :
        LET x == FreezeEndpointFile(penaltyFile.file, tag, now, o) IN
        penaltyFile' = [penaltyFile EXCEPT
            !.file = x.file,
            !.last = [op |-> "freeze", tag |-> tag, at |-> now,
                      before |-> penaltyFile.file, err |-> x.err, out |-> {}]]
    /\ UNCHANGED <<box, sub, ledgerOps, flow, now, ledger, activeRunCancel, activeRunToken,
                   pc, ctxDone, batch, proc, stopArmed, workers, admitted>>

\* a call of filterPenalized(endpoints), possibly by a process started later
FileFilter ==
    /\ penaltyFile.pc = "file"
    /\ penaltyFile' = [penaltyFile EXCEPT
            !.last = [op |-> "filter", tag |-> <<>>, at |-> now,
                      before |-> penaltyFile.file,
                      err |-> readPenaltiesFile(penaltyFile.file).err,
                      out |-> filterPenalizedFile(penaltyFile.file, FileEndpoints, now)]]
    /\ UNCHANGED <<box, sub, ledgerOps, flow, now, ledger, activeRunCancel, activeRunToken,
                   pc, ctxDone, batch, proc, stopArmed, workers, admitted>>

\* the file becomes unreadable (its mode is changed, the disk fails), or
\* readable again
FileFault ==
    /\ penaltyFile.pc = "file"
    /\ penaltyFile.file.exists
    /\ penaltyFile' = [penaltyFile EXCEPT !.file.readable = ~@]
    /\ UNCHANGED <<box, sub, ledgerOps, flow, now, ledger, activeRunCancel, activeRunToken,
                   pc, ctxDone, batch, proc, stopArmed, workers, admitted>>

\* a freeze window passes
FileTick ==
    /\ penaltyFile.pc = "file"
    /\ now < MaxTicks * FreezeMinutes
    /\ now' = now + FreezeMinutes
    /\ UNCHANGED <<box, penaltyFile, sub, ledgerOps, flow, ledger, activeRunCancel,
                   activeRunToken, pc, ctxDone, batch, proc, stopArmed, workers, admitted>>

InitFile ==
    /\ now = 0
    /\ ledger = EmptyLedger
    /\ activeRunCancel = NoRun
    /\ activeRunToken = 0
    /\ pc = [r \in Reqs |-> "idle"]
    /\ ctxDone = [r \in Reqs |-> FALSE]
    /\ batch = [r \in Reqs |-> IdleBatch]
    /\ proc = [r \in Reqs |-> "none"]
    /\ stopArmed = [r \in Reqs |-> FALSE]
    /\ workers = [r \in Reqs |-> [w \in Slots |-> IdleWorker]]
    /\ admitted = 0
    /\ flow = IdleFlow
    /\ box = IdleBox
    /\ sub = IdleSub
    /\ ledgerOps = IdleOps
    /\ penaltyFile = FileStart

NextFile ==
    \/ FileFreeze
    \/ FileFilter
    \/ FileFault
    \/ FileTick

\* FreezeEndpoint and filterPenalized called one after the other on the penalty
\* file as it is on disk
SpecFile == InitFile /\ [][NextFile]_vars

\* ------------------------------------------------- buildConfig

MaxOutbounds == 3    \* outbounds buildConfig is given

\* the first local listener's port
singboxBasePort == 17880

\* fmt.Sprintf("%d", n) of a number that is not negative, digit by digit
RECURSIVE Sprintd(_)
Sprintd(n) == IF n < 10 THEN <<Itoa(n)>> ELSE Sprintd(n \div 10) \o <<Itoa(n % 10)>>

\* whether a piece is a decimal digit, and the digit's value
IsDigit(c) == \E d \in 0..9 : Itoa(d) = c
DigitOf(c) == CHOOSE d \in 0..9 : Itoa(d) = c

\* strconv.Atoi of digits; ok is FALSE for anything else
RECURSIVE AtoiFrom(_, _, _)
AtoiFrom(s, i, acc) ==
    IF i > Len(s) THEN [ok |-> Len(s) > 0, n |-> acc]
    ELSE IF IsDigit(s[i]) THEN AtoiFrom(s, i + 1, acc * 10 + DigitOf(s[i]))
    ELSE [ok |-> FALSE, n |-> 0]

Atoi(s) == AtoiFrom(s, 1, 0)

\* a buildConfig that gives every listener the base port
ListenPortBase(i) == singboxBasePort

\* port := singboxBasePort + i, the outbounds counted from 1 here
ListenPort(i) == singboxBasePort + (i - 1)

\* inTag := fmt.Sprintf("in-%d", i+1)
InTag(i) == <<"in-">> \o Sprintd(i)

\* the outbound's tag, or node-%d when it has none
NodeTag(ob, i) == IF ob.tag = <<>> THEN <<"node-">> \o Sprintd(i) ELSE ob.tag

\* fmt.Sprintf("socks5://127.0.0.1:%d", port)
SocksURL(port) == <<"socks5", ":", "//127.0.0.1", ":">> \o Sprintd(port)

\* what follows the last ":" of a URL
RECURSIVE AfterLastColon(_)
AfterLastColon(url) ==
    IF Contains(url, ":") THEN AfterLastColon(Tail(url)) ELSE url

\* extractPort: the number after the last colon, or 0
extractPort(url) ==
    LET a == Atoi(TrimSpace(AfterLastColon(url))) IN IF a.ok THEN a.n ELSE 0

\* the outbounds appended to the configuration when no outbound has the type
DefaultOutbound(t) == [type |-> <<t>>, tag |-> <<t>>]

\* buildConfig: one socks inbound, one route rule and one Endpoint per
\* outbound, then the outbounds with direct and block appended when no
\* outbound has that type, and the route's final outbound
buildConfig(outbounds) ==
    LET n == Len(outbounds)
        tagged == [i \in 1..n |-> [outbounds[i] EXCEPT !.tag = NodeTag(outbounds[i], i)]]
        hasDirect == \E i \in 1..n : outbounds[i].type = <<"direct">>
        hasBlock == \E i \in 1..n : outbounds[i].type = <<"block">>
    IN [cfg |->
          [inbounds |-> [i \in 1..n |->
                            [type |-> "socks", tag |-> InTag(i), listen |-> "127.0.0.1",
                             listen_port |-> ListenPort(i)]],
           outbounds |-> tagged
                         \o (IF hasDirect THEN <<>> ELSE <<DefaultOutbound("direct")>>)
                         \o (IF hasBlock THEN <<>> ELSE <<DefaultOutbound("block")>>),
           route |-> [rules |-> [i \in 1..n |->
                                    [inbound |-> <<InTag(i)>>, outbound |-> tagged[i].tag]],
                      final |-> <<"direct">>]],
        endpoints |-> [i \in 1..n |->
                          [Tag |-> tagged[i].tag, URL |-> SocksURL(ListenPort(i))]]]

\* the outbounds buildConfig may be given: two tagged nodes, a node without a
\* tag, and outbounds of the types direct and block
ConfigItems ==
    { [type |-> <<"vmess">>, tag |-> Prefix(1) \o <<"hk">>],
      [type |-> <<"vmess">>, tag |-> Prefix(1) \o <<"jp">>],
      [type |-> <<"vmess">>, tag |-> <<>>],
      [type |-> <<"direct">>, tag |-> <<"direct">>],
      [type |-> <<"block">>, tag |-> <<"block">>] }

RECURSIVE OutboundLists(_)
OutboundLists(n) ==
    IF n = 0 THEN {<<>>}
    ELSE OutboundLists(n - 1) \cup
         {Append(l, x) : l \in {m \in OutboundLists(n - 1) : Len(m) = n - 1}, x \in ConfigItems}

\* buildConfig is about to be called with the outbounds
ConfigStart(outbounds) ==
    [pc |-> "config", outbounds |-> outbounds, built |-> FALSE,
     cfg |-> <<>>, endpoints |-> <<>>]

\* cfg, endpoints := buildConfig(outbounds)
BuildConfig ==
    /\ box.pc = "config"
    /\ ~box.built
    /\ LET b == buildConfig(box.outbounds) IN
       box' = [box EXCEPT !.built = TRUE, !.cfg = b.cfg, !.endpoints = b.endpoints]
    /\ UNCHANGED <<penaltyFile, sub, ledgerOps, flow, now, ledger, activeRunCancel,
                   activeRunToken, pc, ctxDone, batch, proc, stopArmed, workers, admitted>>

InitConfig ==
    /\ now = 0
    /\ ledger = EmptyLedger
    /\ activeRunCancel = NoRun
    /\ activeRunToken = 0
    /\ pc = [r \in Reqs |-> "idle"]
    /\ ctxDone = [r \in Reqs |-> FALSE]
    /\ batch = [r \in Reqs |-> IdleBatch]
    /\ proc = [r \in Reqs |-> "none"]
    /\ stopArmed = [r \in Reqs |-> FALSE]
    /\ workers = [r \in Reqs |-> [w \in Slots |-> IdleWorker]]
    /\ admitted = 0
    /\ flow = IdleFlow
    /\ box \in {ConfigStart(l) : l \in OutboundLists(MaxOutbounds)}
    /\ sub = IdleSub
    /\ ledgerOps = IdleOps
    /\ penaltyFile = IdleFile

NextConfig == BuildConfig

\* buildConfig applied to every list of outbounds
SpecConfig == InitConfig /\ [][NextConfig]_vars

\* ------------------------------------------------- StartSingBox and WarmupSingBox

\* the subscription URLs of the environment variable and of the stored list
EnvURL == "u0"
SubURLs == {"u1", "u2"}

\* the outbounds a subscription URL lists: one node, named after the URL
Listing(u) == <<[type |-> <<"vmess">>, tag |-> <<u>>]>>

\* MergeEnvAndSaved: the URLs of the environment followed by the stored ones
MergeEnvAndSaved(env, stored) ==
    env \o SelectSeq(stored, LAMBDA u : \A i \in 1..Len(env) : env[i] # u)

\* the stored lists without a repeated URL, which PUT can save
RECURSIVE CleanedLists(_)
CleanedLists(n) ==
    IF n = 0 THEN {<<>>}
    ELSE CleanedLists(n - 1) \cup
         {Append(l, u) : l \in {m \in CleanedLists(n - 1) : Len(m) = n - 1},
                         u \in SubURLs}

\* a StartSingBox that goes on without a subscription URL
NoSubscriptionNever(urls) == FALSE

\* len(urls) == 0 in StartSingBox and WarmupSingBox
NoSubscription(urls) == Len(urls) = 0

\* a loadOrFetchOutbounds that never uses the cache file
CacheHitNever(cache) == FALSE

\* loadOrFetchOutbounds' test of the cache file: it was read, is a JSON list
\* and has a real outbound
CacheHit(cache) == cache.state = "list" /\ hasRealOutbounds(cache.items)

\* loadOrFetchOutbounds' loop over the URLs, from the state s of the call on;
\* the fetch of the URL numbered bad fails (none when bad is 0), the others
\* answer their listing
RECURSIVE FetchAll(_, _, _)
FetchAll(s, urls, bad) ==
    IF s.pc = "returned" \/ s.idx > Len(urls) THEN s
    ELSE LET r == IF s.idx # bad
                  THEN [err |-> NoErr,
                        out |-> SelectSeq(Listing(urls[s.idx]),
                                          LAMBDA m : isRealOutboundType(m.type))]
                  ELSE [err |-> "request failed", out |-> <<>>]
         IN FetchAll(AfterFetch([s EXCEPT !.fetched = Append(@, r.err)], r), urls, bad)

\* loadOrFetchOutbounds once the cache file was found unusable: every URL is
\* fetched in order, the merged list written to the cache file (o is how the
\* write goes) and returned
FetchAndWrite(cache, urls, bad, o) ==
    LET s == FetchAll([SubStart(cache, Len(urls)) EXCEPT !.pc = "fetching"], urls, bad)
        r == [out |-> <<>>, err |-> NoErr, cache |-> cache,
              fetched |-> Len(s.fetched), wrote |-> FALSE]
    IN IF s.pc = "returned" THEN [r EXCEPT !.err = s.err]
       ELSE IF s.merged = <<>> THEN [r EXCEPT !.err = "no outbounds in the subscriptions"]
       ELSE CASE o = "written" ->
                    [r EXCEPT !.out = s.merged, !.wrote = TRUE,
                              !.cache = [state |-> "list", items |-> s.merged]]
              [] o = "not opened" -> [r EXCEPT !.err = "write failed", !.wrote = TRUE]
              [] o = "truncated" ->
                    [r EXCEPT !.err = "write failed", !.wrote = TRUE,
                              !.cache = [state |-> "corrupt", items |-> <<>>]]

\* how waitPortReady ends for a port that is not 0: a dial succeeded, the
\* deadline passed, the context was done
ProbeOutcomes == {"ready", "timeout", "cancelled"}

\* waitPortReady(ctx, host, port, 15 s) returned nil
waitPortReady(port, p) == port = 0 \/ p = "ready"

\* what the environment does to one call: the first of MkdirAll, the config
\* write, ensureSingBoxBinary and cmd.Start that fails, or how the probe ends
\* when none does
Choices == {"os.MkdirAll", "write config", "ensure binary", "exec"} \cup ProbeOutcomes

\* the call of StartSingBox or WarmupSingBox returns: last keeps what it was
\* given (the URLs, the cache file it found), did and returned, and the cache
\* file it left
BoxReturn(b, op, c, res) ==
    [b EXCEPT !.call[op] = [pc |-> "idle"],
              !.last = [op |-> op, urls |-> c.urls, found |-> c.found, left |-> b.cache,
                        loaded |-> res.loaded, fetched |-> res.fetched,
                        wrote |-> res.wrote, out |-> res.out, err |-> res.err,
                        stop |-> res.stop, probe |-> res.probe,
                        settled |-> res.settled, touched |-> res.touched]]

\* a call that has done nothing yet
NoResult ==
    [loaded |-> <<>>, fetched |-> 0, wrote |-> FALSE, out |-> <<>>, err |-> NoErr,
     stop |-> "noop", probe |-> "none", settled |-> FALSE, touched |-> {}]

\* ensureSingBoxBinary: the binary is found or downloaded, or the call fails
EnsureBinary(b, res, ch) ==
    [b |-> b,
     res |-> [res EXCEPT !.err = IF ch = "ensure binary" THEN "ensure binary" ELSE NoErr,
                         !.touched = @ \cup {"ensure binary"}]]

\* WarmupSingBox after loadOrFetchOutbounds returned l
WarmupRest(b, c, l, res0, ch) ==
    LET res == [res0 EXCEPT !.loaded = l.out, !.fetched = l.fetched, !.wrote = l.wrote,
                            !.touched = @ \cup (IF l.fetched > 0 THEN {"fetch"} ELSE {})
                                          \cup (IF l.wrote THEN {"write cache"} ELSE {})]
        b1 == [b EXCEPT !.cache = l.cache]
    IN IF l.err # NoErr THEN BoxReturn(b1, "warm", c, [res EXCEPT !.err = l.err])
       ELSE LET e == EnsureBinary(b1, res, ch) IN BoxReturn(e.b, "warm", c, e.res)

\* StartSingBox after loadOrFetchOutbounds returned l: buildConfig, the config
\* file, the binary, cmd.Start, the probe of the first port with the settle
\* delay when it succeeded, and filterPenalized(endpoints)
StartRest(b, c, l, res0, ch) ==
    LET res == [res0 EXCEPT !.loaded = l.out, !.fetched = l.fetched, !.wrote = l.wrote,
                            !.touched = @ \cup (IF l.fetched > 0 THEN {"fetch"} ELSE {})
                                          \cup (IF l.wrote THEN {"write cache"} ELSE {})]
        b1 == [b EXCEPT !.cache = l.cache]
        built == buildConfig(l.out)
        e == EnsureBinary(b1, [res EXCEPT !.touched = @ \cup {"write config"}], ch)
        port == extractPort(built.endpoints[1].URL)
        ready == waitPortReady(port, ch)
    IN IF l.err # NoErr
       THEN BoxReturn(b1, "start", c, [res EXCEPT !.err = "load subscriptions"])
       ELSE IF Len(built.endpoints) = 0
       THEN BoxReturn(b1, "start", c, [res EXCEPT !.err = "no usable outbounds"])
       ELSE IF ch = "write config"
       THEN BoxReturn(b1, "start", c,
                      [res EXCEPT !.err = "write config", !.touched = @ \cup {"write config"}])
       ELSE IF e.res.err # NoErr THEN BoxReturn(e.b, "start", c, e.res)
       ELSE IF ch = "exec"
       THEN BoxReturn(e.b, "start", c,
                      [e.res EXCEPT !.err = "start sing-box", !.touched = @ \cup {"exec"}])
       ELSE BoxReturn([e.b EXCEPT !.proc = "running"], "start", c,
                      [e.res EXCEPT !.touched = @ \cup {"exec"},
                                    !.stop = "kill",
                                    !.probe = IF port = 0 THEN "skipped" ELSE ch,
                                    !.settled = ready,
                                    !.out = filterPenalized(built.endpoints)])

\* StartSingBox or WarmupSingBox from its entry to the reading of the cache
\* file: no URL returns at once; a cache file that can be used is used and the
\* call runs to its end; otherwise the call goes on to fetch
BoxEnter(b, op, ch) ==
    LET urls == MergeEnvAndSaved(b.env, b.stored)
        c == [pc |-> "fetching", urls |-> urls, found |-> b.cache]
        made == [NoResult EXCEPT !.touched = {"os.MkdirAll"}]
        hit == [out |-> b.cache.items, err |-> NoErr, cache |-> b.cache,
                fetched |-> 0, wrote |-> FALSE]
        b1 == [b EXCEPT !.dir = TRUE]
    IN IF NoSubscription(urls) THEN BoxReturn(b, op, c, NoResult)
       ELSE IF ch = "os.MkdirAll"
       THEN BoxReturn(b, op, c, [made EXCEPT !.err = "make sing-box dir"])
       ELSE IF CacheHit(b.cache)
       THEN (IF op = "start" THEN StartRest(b1, c, hit, made, ch)
             ELSE WarmupRest(b1, c, hit, made, ch))
       ELSE [b1 EXCEPT !.call[op] = c]

\* the call fetches the subscriptions, writes the cache file and runs to its end
BoxFetch(b, op, bad, o, ch) ==
    LET c == b.call[op]
        l == FetchAndWrite(b.cache, c.urls, bad, o)
        made == [NoResult EXCEPT !.touched = {"os.MkdirAll"}]
    IN IF op = "start" THEN StartRest(b, c, l, made, ch) ELSE WarmupRest(b, c, l, made, ch)

\* the state of the proxy package: the environment's and the stored URLs, the
\* cache file, the sing-box directory, the subprocess, the calls in flight
BoxStart(env, stored, cache) ==
    [pc |-> "box", env |-> env, stored |-> stored, cache |-> cache, dir |-> FALSE,
     proc |-> "none",
     call |-> [start |-> [pc |-> "idle"], warm |-> [pc |-> "idle"]],
     last |-> [op |-> "none"]]

BoxFrame ==
    UNCHANGED <<penaltyFile, sub, ledgerOps, flow, now, ledger, activeRunCancel,
                activeRunToken, pc, ctxDone, batch, proc, stopArmed, workers, admitted>>

\* StartSingBox is called, the environment doing one of C
StartEnter(C) ==
    /\ box.pc \in {"box", "warm"}
    /\ box.call["start"].pc = "idle"
    /\ \E ch \in C : box' = BoxEnter(box, "start", ch)
    /\ BoxFrame

\* StartSingBox fetches the subscriptions and runs to its end
StartFetch(C) ==
    /\ box.pc \in {"box", "warm"}
    /\ box.call["start"].pc = "fetching"
    /\ \E bad \in 0..Len(box.call["start"].urls), o \in WriteOutcomes, ch \in C :
        box' = BoxFetch(box, "start", bad, o, ch)
    /\ BoxFrame

\* the goroutine a subscription handler started calls WarmupSingBox
WarmEnter(C) ==
    /\ box.pc = "warm"
    /\ box.call["warm"].pc = "spawned"
    /\ \E ch \in C : box' = BoxEnter(box, "warm", ch)
    /\ BoxFrame

\* WarmupSingBox fetches the subscriptions and runs to its end
WarmFetch(C) ==
    /\ box.pc = "warm"
    /\ box.call["warm"].pc = "fetching"
    /\ \E bad \in 0..Len(box.call["warm"].urls), o \in WriteOutcomes, ch \in C :
        box' = BoxFetch(box, "warm", bad, o, ch)
    /\ BoxFrame

\* pickProxyEndpoints calls StartSingBox, whatever the environment does
StartSingBoxEnter == StartEnter(Choices)
StartSingBoxFetch == StartFetch(Choices)

\* StartSingBox and WarmupSingBox where only the fetches and the cache write
\* can fail
StartSingBoxLoad == StartEnter({"ready"})
StartSingBoxLoadFetch == StartFetch({"ready"})
WarmupSingBoxLoad == WarmEnter({"ready"})
WarmupSingBoxLoadFetch == WarmFetch({"ready"})

\* SaveSubs(list) and go WarmupSingBox, the end of POST, PUT and DELETE; a
\* failed save answers 500 and starts nothing; one warmup goroutine at a time
SaveAndWarm(list) ==
    /\ box.pc = "warm"
    /\ box.call["warm"].pc = "idle"
    /\ \E saved \in BOOLEAN :
        box' = IF saved
               THEN [box EXCEPT !.stored = list, !.call["warm"] = [pc |-> "spawned"]]
               ELSE box
    /\ BoxFrame

\* POST /api/proxy/subscriptions: the URL is appended unless it is stored
SubscriptionsPost ==
    \E u \in SubURLs :
        SaveAndWarm(IF \E i \in 1..Len(box.stored) : box.stored[i] = u
                    THEN box.stored ELSE Append(box.stored, u))

\* the lists PUT saves: no URL twice
StoredLists ==
    {m \in CleanedLists(MaxUrls) : \A i, j \in 1..Len(m) : i # j => m[i] # m[j]}

\* PUT: the stored list is replaced by the cleaned list
SubscriptionsPut == \E l \in StoredLists : SaveAndWarm(l)

\* DELETE: the URL is taken out of the stored list
SubscriptionsDelete ==
    \E u \in SubURLs : SaveAndWarm(SelectSeq(box.stored, LAMBDA s : s # u))

InitBox ==
    /\ now = 0
    /\ ledger \in {EmptyLedger, [t \in {Prefix(1) \o <<"old">>} |-> FreezeMinutes]}
    /\ activeRunCancel = NoRun
    /\ activeRunToken = 0
    /\ pc = [r \in Reqs |-> "idle"]
    /\ ctxDone = [r \in Reqs |-> FALSE]
    /\ batch = [r \in Reqs |-> IdleBatch]
    /\ proc = [r \in Reqs |-> "none"]
    /\ stopArmed = [r \in Reqs |-> FALSE]
    /\ workers = [r \in Reqs |-> [w \in Slots |-> IdleWorker]]
    /\ admitted = 0
    /\ flow = IdleFlow
    /\ box \in {BoxStart(env, st, c) :
                    env \in {<<>>, <<EnvURL>>}, st \in StoredLists, c \in CacheFiles}
    /\ sub = IdleSub
    /\ ledgerOps = IdleOps
    /\ penaltyFile = IdleFile

NextBox ==
    \/ StartSingBoxEnter
    \/ StartSingBoxFetch

\* StartSingBox called again and again, for every subscription list, cache
\* file and failure of the environment
SpecBox == InitBox /\ [][NextBox]_vars

InitWarm ==
    /\ now = 0
    /\ ledger = EmptyLedger
    /\ activeRunCancel = NoRun
    /\ activeRunToken = 0
    /\ pc = [r \in Reqs |-> "idle"]
    /\ ctxDone = [r \in Reqs |-> FALSE]
    /\ batch = [r \in Reqs |-> IdleBatch]
    /\ proc = [r \in Reqs |-> "none"]
    /\ stopArmed = [r \in Reqs |-> FALSE]
    /\ workers = [r \in Reqs |-> [w \in Slots |-> IdleWorker]]
    /\ admitted = 0
    /\ flow = IdleFlow
    /\ box \in {[BoxStart(<<>>, <<>>, c) EXCEPT !.pc = "warm"] :
                    c \in {x \in CacheFiles : x.items = <<>>}}
    /\ sub = IdleSub
    /\ ledgerOps = IdleOps
    /\ penaltyFile = IdleFile

NextWarm ==
    \/ SubscriptionsPost
    \/ SubscriptionsPut
    \/ SubscriptionsDelete
    \/ WarmupSingBoxLoad
    \/ WarmupSingBoxLoadFetch
    \/ StartSingBoxLoad
    \/ StartSingBoxLoadFetch

\* the subscription handlers with their warmup goroutine, and StartSingBox,
\* on one stored list and one cache file
SpecWarm == InitWarm /\ [][NextWarm]_vars

\* ================================================================ claims

Min(a, b) == IF a < b THEN a ELSE b
Max(a, b) == IF a > b THEN a ELSE b

\* the scenario workers of r that have been launched and not yet collected
Launched(r) == {w \in Slots : workers[r][w].pc # "none"}

\* the requested count N of r, values below 1 treated as 1
Requested(r) == Max(1, batch[r].asked)

\* RunWithOptions of r got its endpoints and its browser: the launch loop ran
ReachedLaunch(r) ==
    \/ pc[r] = "running"
    \/ pc[r] = "returned" /\ batch[r].picked /\ batch[r].retErr # ErrBrowser

C3_AsStated ==
    \A r \in Reqs :
        (/\ pc[r] = "returned"
         /\ batch[r].runCount > 0
         /\ ~AnySuccess(batch[r].results))
        => batch[r].retErr # NoErr

\* C4: when some worker of a batch ended with outcome downloaded, RunWithOptions
\* returns a nil error and one result for every launched worker, the errors of
\* the other workers staying in their own entries.
C4_SuccessReturnsAll ==
    \A r \in Reqs :
        pc[r] = "returned" /\ AnySuccess(batch[r].results) =>
            /\ batch[r].retErr = NoErr
            /\ Len(batch[r].results) = batch[r].runCount
            /\ {batch[r].results[i].ID : i \in 1..Len(batch[r].results)}
                   = 1..batch[r].runCount
            /\ \A i \in 1..Len(batch[r].errCh) :
                 \E j \in 1..Len(batch[r].results) :
                    batch[r].results[j].Error = batch[r].errCh[i]

\* a batch has returned one downloaded result beside a worker that failed
C4_Witness ==
    \E r \in Reqs :
        /\ pc[r] = "returned"
        /\ batch[r].retErr = NoErr
        /\ \E i, j \in 1..Len(batch[r].results) :
              /\ batch[r].results[i].Outcome = DownloadOutcomeDownloaded
              /\ batch[r].results[j].Error # NoErr

\* the batch of r exists: runWithExclusive has created its context and the
\* handler has not yet let go of it
HasContext(r) == pc[r] \in {"registered", "running", "returned"}

\* C5: at every moment at most one batch has a context that is not cancelled,
\* and a batch registered while an older one holds a context finds the older
\* one's context cancelled from its registration on, so before its own
\* RunWithOptions starts.
C5_OneLiveBatch ==
    \A a, b \in Reqs :
        a # b /\ HasContext(a) /\ HasContext(b) =>
            /\ ctxDone[a] \/ ctxDone[b]
            /\ batch[a].token < batch[b].token => ctxDone[a]

\* two batches are in flight at once: the older one cancelled with workers still
\* running, the newer one running with a live context
C5_Witness ==
    \E a, b \in Reqs :
        /\ pc[a] = "running" /\ pc[b] = "running"
        /\ batch[a].token < batch[b].token
        /\ ctxDone[a] /\ ~ctxDone[b]
        /\ \E w \in Slots : workers[a][w].pc \in {"flow", "download"}

\* the tags of a sequence of endpoints
Tags(eps) == {eps[i].Tag : i \in 1..Len(eps)}

\* C6, as stated: when batch B is started while batch A is in flight, the endpoint
\* set B receives is what it would be had A never run; in particular an endpoint
\* frozen by a cancelled worker of A is not missing from B's endpoints.
C6_AsStated ==
    \A a, b \in Reqs : \A w \in Slots :
        (/\ a # b
         /\ batch[b].overlapped
         /\ batch[b].picked
         /\ proc[b] # "none"
         /\ pc[a] = "running"
         /\ workers[a][w].pc = "returned"
         /\ workers[a][w].err = ErrCanceled
         /\ workers[a][w].writes > 0)
        => workers[a][w].tag \in Tags(batch[b].endpoints)

\* C7, as stated: the sing-box subprocess started for a batch is never killed
\* because the batch's request context is done.
C7_AsStated == \A r \in Reqs : proc[r] # "killed"

\* C8, as stated: a POST /run that is rejected before a batch starts leaves the
\* registered cancel handle registered and the context of every batch in flight
\* as it was.
C8_AsStated ==
    [][(\E r \in Reqs : HandleRunRejected(r)) =>
          /\ activeRunCancel' = activeRunCancel
          /\ \A b \in Reqs : HasContext(b) => ctxDone'[b] = ctxDone[b]]_vars

\* runScenario of worker w of r returns in this step
Ends(r, w) == workers[r][w].pc # "returned" /\ workers'[r][w].pc = "returned"

\* a worker result the freeze rule is about: a proxy tag, and outcome downloaded,
\* outcome exhausted or a scenario-ending error
FreezeDue(wk) ==
    /\ wk.tag # ""
    /\ \/ wk.outcome \in {DownloadOutcomeDownloaded, DownloadOutcomeExhausted}
       \/ wk.err # NoErr

\* C9, as stated: a worker with a proxy tag that ends downloaded, exhausted or
\* with any scenario-ending error, a cancellation error included, has its tag in
\* the ledger with an expiry 15 minutes ahead when it returns, provided the
\* ledger could be written (no write of the worker failed without a later one
\* succeeding).
C9_AsStated ==
    [][\A r \in Reqs : \A w \in Slots :
          (/\ Ends(r, w)
           /\ FreezeDue(workers'[r][w])
           /\ ~workers'[r][w].ioFailed)
          => /\ workers'[r][w].tag \in DOMAIN ledger'
             /\ ledger'[workers'[r][w].tag] = now' + FreezeMinutes]_vars

\* C9, amended: a worker with a proxy tag that passed runScenario's initial
\* cancellation check and ends downloaded, exhausted or with any scenario-ending
\* error has its tag in the ledger with an expiry 15 minutes ahead when it
\* returns, provided the ledger could be written (no write of the worker failed
\* without a later one succeeding).
C9_FreezeOnEnd ==
    [][\A r \in Reqs : \A w \in Slots :
          (/\ Ends(r, w)
           /\ workers'[r][w].entered
           /\ FreezeDue(workers'[r][w])
           /\ ~workers'[r][w].ioFailed)
          => /\ workers'[r][w].penalized
             /\ workers'[r][w].tag \in DOMAIN ledger'
             /\ ledger'[workers'[r][w].tag] = now' + FreezeMinutes]_vars

\* a worker cancelled after its initial check has returned the cancellation
\* error and its endpoint is frozen for the next 15 minutes
C9_Witness ==
    \E r \in Reqs : \E w \in Slots :
        /\ workers[r][w].pc = "returned"
        /\ workers[r][w].entered
        /\ workers[r][w].tag # ""
        /\ workers[r][w].err = ErrCanceled
        /\ ~workers[r][w].ioFailed
        /\ IsPenalized(ledger, workers[r][w].tag, now)
        /\ ledger[workers[r][w].tag] = now + FreezeMinutes

\* C10: one runScenario invocation makes at most one successful ledger write,
\* however often freeze is called; the write and the penalized flag go together,
\* so every freeze call after a successful one is a no-op.
C10_OneWrite ==
    \A r \in Reqs : \A w \in Slots :
        /\ workers[r][w].writes <= 1
        /\ workers[r][w].penalized <=> workers[r][w].writes = 1

\* a worker went through fail and the deferred freeze (two freeze calls, the
\* first one successful) and wrote once
C10_Witness ==
    \E r \in Reqs : \E w \in Slots :
        /\ workers[r][w].pc = "returned"
        /\ workers[r][w].err = ErrStep
        /\ ~workers[r][w].ioFailed
        /\ workers[r][w].writes = 1

\* the place of endpoint ep among the candidates
Place(ep) == CHOOSE i \in 1..NumEndpoints : ConfiguredEndpoints[i] = ep

C18_AsStated ==
    \A r \in Reqs :
        pc[r] = "returned" /\ batch[r].retErr # NoErr =>
            /\ Len(batch[r].results) = batch[r].runCount
            /\ batch[r].results # <<>>

C20_RejectedUntouched ==
    batch[One].invalid =>
        /\ pc[One] \in {"registered", "returned"}
        /\ pc[One] = "returned" => batch[One].retErr # NoErr
        /\ batch[One].touched = {}
        /\ ~batch[One].picked
        /\ proc[One] = "none"
        /\ \A w \in Slots : workers[One][w] = IdleWorker
        /\ flow.trail = <<>>
        /\ ledger = EmptyLedger

\* RunWithOptions was called with an empty PromptText and has returned the
\* validation error
C20_Witness ==
    /\ batch[One].invalid
    /\ pc[One] = "returned"
    /\ batch[One].retErr = ErrInvalid
    /\ batch[One].results = <<>>

\* the statements that follow the navigation, up to Submit
AfterNavigation ==
    {Workflow[i] : i \in (Index("goto") + 1)..Index("submit prompt")}

\* C12: after the batch's cancellation a worker that is inside step k of the
\* workflow returns a cancellation error without beginning step k+1: no step
\* after the navigation is begun with the context already cancelled, and in
\* particular Submit is never performed after the cancellation.
C12_AsStated ==
    /\ flow.late \cap AfterNavigation = {}
    /\ "submit prompt" \notin flow.late

\* statement n has to succeed for runScenario to go on: all but the cookie bar,
\* which may be absent, the temperature step of a scenario without temperature
\* and the upload of a scenario without image; the check of ctx is no step
Required(n) ==
    /\ n \notin {"accept cookies bar", "context done"}
    /\ n = "set temperature" => flow.temperature > 0
    /\ n = "upload" => flow.image

\* the error of the scenario's result: the worker's, and after the join the one
\* in the batch's results
ScenarioError ==
    IF pc[One] = "returned" THEN batch[One].results[1].Error
    ELSE workers[One][One].err

C14_AsStated ==
    flow.at = "returned" /\ <<"new context", "ok">> \in flow.rets =>
        /\ flow.browserCtx = "closed"
        /\ flow.tracing # "on"

\* the steps of the trail, as a set
Begun == {flow.trail[i] : i \in 1..Len(flow.trail)}

\* C15: a batch submitted through POST /run (JSON or multipart) with temperature
\* 0 runs with the temperature step disabled: the RunOptions handed to the
\* orchestrator have Temperature 0 and the worker skips the Set Temperature step.
C15_AsStated ==
    flow.via \in {"json", "multipart"} /\ flow.submitted = 0 =>
        /\ flow.temperature = 0
        /\ "set temperature" \notin Begun

\* C16: a scenario run with RunOptions.Temperature <= 0 skips the Set
\* Temperature step entirely (SetTemperature is not called and no pause is
\* applied for it), proceeds to Enter Prompt, and the skip produces no error.
C16_TemperatureSkipped ==
    flow.temperature <= 0 =>
        /\ "set temperature" \notin Begun
        /\ \A o \in StepReturns : <<"set temperature", o>> \notin flow.rets
        /\ "set temperature" \notin flow.paused
        /\ flow.failedAt # "set temperature"
        /\ <<"set aspect ratio", "ok">> \in flow.rets =>
              \/ flow.at \in {"set temperature", "prompt input"}
              \/ "prompt input" \in Begun

\* a scenario with temperature 0 went from Set aspect ratio to Enter prompt
\* and on to a downloaded image, without error
C16_Witness ==
    /\ flow.temperature = 0
    /\ "prompt input" \in flow.done
    /\ "set temperature" \notin Begun
    /\ workers[One][One].pc = "returned"
    /\ workers[One][One].err = NoErr
    /\ workers[One][One].outcome = DownloadOutcomeDownloaded

\* the outcome of the scenario's result: the worker's, and after the join the
\* one in the batch's results
ScenarioOutcome ==
    IF pc[One] = "returned" THEN batch[One].results[1].Outcome
    ELSE workers[One][One].outcome

\* C17: if after a successful Enter Prompt step the prompt control reads back
\* with length 0, the worker returns the error "prompt is empty after entry",
\* never reaches Upload or Submit, and its result keeps outcome none.
C17_EmptyPromptFails ==
    <<"prompt input", "ok">> \in flow.rets /\ flow.length = 0 =>
        /\ flow.at = "returned"
        /\ flow.failedAt = "prompt length"
        /\ ScenarioError = ErrPromptEmpty
        /\ ScenarioOutcome = DownloadOutcomeNone
        /\ Begun \cap {"upload", "submit prompt", "download"} = {}

\* Enter prompt succeeded, the control read back empty, and the worker has
\* returned the error
C17_Witness ==
    /\ <<"prompt input", "ok">> \in flow.rets
    /\ flow.length = 0
    /\ workers[One][One].pc = "returned"
    /\ workers[One][One].err = ErrPromptEmpty
    /\ workers[One][One].outcome = DownloadOutcomeNone

\* C25: when endpoints exist, the worker with 1-based id i is bound to the i-th
\* usable endpoint (URL and tag from the same endpoint), the ProxyTag of result
\* i equals that endpoint's tag, and no two workers of one batch are bound to
\* the same endpoint.
C25_PositionalBinding ==
    \A r \in Reqs :
        Len(batch[r].endpoints) > 0 =>
            /\ \A w \in Launched(r) :
                  /\ w <= Len(batch[r].endpoints)
                  /\ workers[r][w].url = batch[r].endpoints[w].URL
                  /\ workers[r][w].tag = batch[r].endpoints[w].Tag
            /\ \A v, w \in Launched(r) :
                  v # w => /\ workers[r][v].url # workers[r][w].url
                           /\ workers[r][v].tag # workers[r][w].tag
            /\ pc[r] = "returned" =>
                  \A i \in 1..Len(batch[r].results) :
                      batch[r].results[i].ProxyTag =
                          batch[r].endpoints[batch[r].results[i].ID].Tag

\* two endpoints, two workers: the result of worker 2 came in first and carries
\* the tag of the second endpoint
C25_Witness ==
    \E r \in Reqs :
        /\ pc[r] = "returned"
        /\ Len(batch[r].endpoints) = 2
        /\ Len(batch[r].results) = 2
        /\ batch[r].results[1].ID = 2
        /\ batch[r].results[1].ProxyTag = ConfiguredEndpoints[2].Tag

\* the results of r carry each id 1..runCount exactly once
EachIdOnce(r) ==
    /\ Len(batch[r].results) = batch[r].runCount
    /\ \A w \in 1..batch[r].runCount :
          Cardinality({i \in 1..Len(batch[r].results) :
                          batch[r].results[i].ID = w}) = 1

\* C26: workers never abort each other: the step in which one worker ends, with
\* an error or without, leaves the batch's context and every sibling worker as
\* they were; RunWithOptions returns only after every launched worker has
\* delivered exactly one result, so the results carry each id 1..runCount
\* exactly once, whatever the interleaving.
C26_Independent ==
    /\ [][\A r \in Reqs : \A w \in Slots :
            Ends(r, w) =>
                /\ ctxDone' = ctxDone
                /\ \A v \in Slots \ {w} : workers'[r][v] = workers[r][v]]_vars
    /\ [](\A r \in Reqs :
            /\ pc[r] = "running" =>
                 \A w \in Slots :
                     Cardinality({i \in 1..Len(batch[r].resultCh) :
                                     batch[r].resultCh[i] = w})
                       = IF workers[r][w].pc = "returned" THEN 1 ELSE 0
            /\ ReachedLaunch(r) /\ pc[r] = "returned" => EachIdOnce(r))

\* worker 2 failed and returned first, worker 1 went on to a downloaded image
C26_Witness ==
    \E r \in Reqs :
        /\ pc[r] = "returned"
        /\ Len(batch[r].results) = 2
        /\ batch[r].results[1].ID = 2
        /\ batch[r].results[1].Error = ErrStep
        /\ batch[r].results[2].ID = 1
        /\ batch[r].results[2].Outcome = DownloadOutcomeDownloaded

\* the launched workers of r that have not sent their result yet
Pending(r) == {w \in 1..batch[r].runCount : workers[r][w].pc # "returned"}

\* C27: the join cannot deadlock: each worker sends at most one error and
\* exactly one result, both channels have room for every send still to come
\* (capacity = worker count), the channels are closed only after all workers
\* finished and nothing is sent after that, and once every worker has
\* terminated RunWithOptions eventually returns.
C27_JoinNeverBlocks ==
    /\ [](\A r \in Reqs :
            pc[r] = "running" =>
                /\ Len(batch[r].resultCh) + Cardinality(Pending(r))
                     = batch[r].runCount
                /\ Len(batch[r].resultCh) + Cardinality(Pending(r))
                     <= ChannelCap(batch[r].runCount)
                /\ Len(batch[r].errCh) + Cardinality(Pending(r))
                     <= ChannelCap(batch[r].runCount)
                /\ Len(batch[r].errCh)
                     = Cardinality({w \in 1..batch[r].runCount :
                                      /\ workers[r][w].pc = "returned"
                                      /\ workers[r][w].err # NoErr}))
    /\ [][\A r \in Reqs :
            /\ pc[r] = "running" /\ pc'[r] # "running" => AllReturned(r)
            /\ (\/ Len(batch'[r].resultCh) > Len(batch[r].resultCh)
                \/ Len(batch'[r].errCh) > Len(batch[r].errCh))
               => pc[r] = "running" /\ pc'[r] = "running"]_vars
    /\ \A r \in Reqs :
          (pc[r] = "running" /\ AllReturned(r)) ~> (pc[r] = "returned")

\* two workers have both failed and sent error and result: both channels are
\* full, and wg.Wait can return
C27_Witness ==
    \E r \in Reqs :
        /\ pc[r] = "running"
        /\ batch[r].runCount = 2
        /\ Len(batch[r].errCh) = 2
        /\ Len(batch[r].resultCh) = 2
        /\ AllReturned(r)

\* C28: run tokens are strictly increasing, and a batch that completes clears
\* the process-wide cancel handle only if its own token is still the current
\* one: the registered handle always belongs to the batch with the current
\* token, a superseded batch that finishes leaves it registered, and an explicit
\* cancel then still cancels that batch.
C28_TokenGuardsHandle ==
    /\ [](\A a, b \in Reqs :
            /\ HasContext(a) => batch[a].token \in 1..activeRunToken
            /\ HasContext(a) /\ HasContext(b) /\ a # b =>
                 batch[a].token # batch[b].token
            /\ activeRunCancel = b =>
                 HasContext(b) /\ batch[b].token = activeRunToken)
    /\ [][\A r \in Reqs :
            /\ activeRunToken' >= activeRunToken
            /\ ~HasContext(r) /\ HasContext(r)' =>
                 /\ activeRunToken' > activeRunToken
                 /\ batch'[r].token = activeRunToken'
                 /\ activeRunCancel' = r
            /\ pc[r] = "returned" /\ pc'[r] = "done" =>
                 activeRunCancel' = IF batch[r].token = activeRunToken
                                    THEN NoRun ELSE activeRunCancel
            /\ HandleCancel /\ activeRunCancel = r =>
                 ctxDone'[r] /\ activeRunCancel' = NoRun]_vars

\* batch B was registered while batch A was in flight; A has since completed,
\* and B's cancel func is still the registered one
C28_Witness ==
    \E a, b \in Reqs :
        /\ pc[a] = "done"
        /\ pc[b] = "running"
        /\ batch[b].overlapped
        /\ batch[b].token = 2
        /\ activeRunCancel = b
        /\ ~ctxDone[b]

\* C24: when a batch ends because it was superseded or explicitly cancelled (its
\* cancel func was called and a worker returned the cancellation error) and no
\* worker reached downloaded, the /run handler answers 409 "cancelled",
\* whichever worker error is drained first from the error channel.
C24_AsStated ==
    \A r \in Reqs :
        (/\ pc[r] = "returned"
         /\ activeRunCancel # r
         /\ ctxDone[r]
         /\ ~AnySuccess(batch[r].results)
         /\ \E i \in 1..Len(batch[r].results) :
               batch[r].results[i].Error = ErrCanceled)
        => RunStatus(batch[r].retErr) = 409

\* the statements runScenario runs through its step closure
StepRunnerSteps ==
    {"accept terms", "open model settings", "set output resolution",
     "set aspect ratio", "set temperature", "prompt input", "upload",
     "submit prompt"}

\* C29: the step runner returns nil and applies the inter-step pause only when
\* the step function returns (true, nil); for (false, nil) it returns the error
\* "<step> not completed" with no pause, and for an error it returns an error
\* wrapping the step's error with no pause.
C29_StepRunner ==
    \A n \in StepRunnerSteps :
        /\ <<n, "ok">> \in flow.rets =>
              n \in flow.done /\ n \in flow.paused /\ flow.failedAt # n
        /\ <<n, "not completed">> \in flow.rets =>
              /\ n \notin flow.paused /\ n \notin flow.done
              /\ flow.failedAt = n
              /\ ScenarioError = ErrNotCompleted
        /\ <<n, "error">> \in flow.rets =>
              /\ n \notin flow.paused /\ n \notin flow.done
              /\ flow.failedAt = n
              /\ ScenarioError = ErrStep
        /\ n \in flow.paused /\ n \in Begun => <<n, "ok">> \in flow.rets

\* Open model settings returned (true, nil) and was followed by the pause; Set
\* output resolution returned (false, nil) and the worker returned the "not
\* completed" error without a pause
C29_Witness ==
    /\ <<"open model settings", "ok">> \in flow.rets
    /\ "open model settings" \in flow.paused
    /\ <<"set output resolution", "not completed">> \in flow.rets
    /\ "set output resolution" \notin flow.paused
    /\ workers[One][One].pc = "returned"
    /\ workers[One][One].err = ErrNotCompleted

\* C23: a POST /cancel handled while a cancel func is registered cancels that
\* batch's context and no other, clears the handle and answers "cancelled";
\* handled with none registered it answers "idle" and changes nothing. After
\* either, no cancel func is registered, so that a POST /cancel following at
\* once answers "idle" and cancels nothing. No batch is started, registered or
\* moved, and the token is left alone.
C23_ExplicitCancel ==
    [][HandleCancel =>
         /\ activeRunCancel # NoRun =>
                /\ CancelReply = "cancelled"
                /\ ctxDone'[activeRunCancel]
                /\ \A q \in Reqs : q # activeRunCancel => ctxDone'[q] = ctxDone[q]
         /\ activeRunCancel = NoRun =>
                /\ CancelReply = "idle"
                /\ UNCHANGED vars
         /\ activeRunCancel' = NoRun
         /\ CancelReply' = "idle"
         /\ UNCHANGED <<pc, proc, batch, workers, admitted, activeRunToken, ledger>>]_vars

\* a running batch whose cancel func was registered and has been cancelled and
\* cleared by POST /cancel: a further POST /cancel answers "idle"
C23_Witness ==
    \E r \in Reqs :
        /\ pc[r] = "running"
        /\ ctxDone[r]
        /\ activeRunCancel = NoRun
        /\ activeRunToken = 1
        /\ CancelReply = "idle"

\* the type of an entry, trimmed and lower-cased, is empty or one of selector,
\* urltest, dns, direct, block, tun, mixed
NonRoutableType(t) ==
    LET s == ToLower(TrimSpace(t)) IN s = <<>> \/ \E x \in NonRoutable : s = <<x>>

\* an outbound list without an entry of a non-routable type and without an
\* entry whose original tag contains a blacklist keyword
Routable(items) ==
    \A i \in 1..Len(items) :
        /\ ~NonRoutableType(items[i].type)
        /\ \A kw \in Blacklist : ~Contains(items[i].orig, kw)

\* C21: the list loadOrFetchOutbounds merges from the fetched subscriptions, at
\* every point of the loop and when it is returned, and the cache file it has
\* written from it, hold no entry of a non-routable type (compared trimmed and
\* lower-cased) and no entry whose original tag contains a blacklist keyword.
C21_MergedRoutable ==
    /\ Routable(sub.merged)
    /\ (sub.pc = "returned" /\ sub.fetched # <<>>) => Routable(sub.out)
    /\ (sub.cache # sub.had /\ sub.cache.state = "list") =>
            (sub.cache.items = sub.merged /\ Routable(sub.cache.items))

\* two subscriptions were fetched, they listed more outbounds than were kept, and
\* the kept ones were written to the cache file and returned
C21_Witness ==
    /\ sub.pc = "returned"
    /\ Len(sub.fetched) = 2
    /\ sub.err = NoErr
    /\ sub.wrote
    /\ sub.out = sub.merged
    /\ sub.cache.items = sub.merged
    /\ Len(sub.merged) = 2
    /\ sub.listed = 4

\* the cache file loadOrFetchOutbounds was called with is a list with a real
\* outbound
ValidCache(c) == c.state = "list" /\ hasRealOutbounds(c.items)

\* C22: when loadOrFetchOutbounds was called without a valid cache file and has
\* returned after a fetch failed, or with an empty merged list, it returned an
\* error and no outbound, writeJSONFile was not called and the cache file is
\* the one it was called with; a failed fetch is the last one tried.
C22_NoPartialSuccess ==
    /\ \A i \in 1..Len(sub.fetched) :
            sub.fetched[i] # NoErr => i = Len(sub.fetched) /\ sub.pc = "returned"
    /\ ( /\ sub.pc = "returned"
         /\ ~ValidCache(sub.had)
         /\ \/ \E i \in 1..Len(sub.fetched) : sub.fetched[i] # NoErr
            \/ sub.merged = <<>> )
       => /\ sub.err # NoErr
          /\ sub.out = <<>>
          /\ ~sub.wrote
          /\ sub.cache = sub.had

\* the first subscription was fetched and gave an outbound that was kept, the
\* fetch of the second failed: nothing is returned, nothing is written
C22_Witness ==
    /\ sub.pc = "returned"
    /\ ~ValidCache(sub.had)
    /\ Len(sub.fetched) = 2
    /\ sub.fetched[1] = NoErr
    /\ sub.fetched[2] # NoErr
    /\ sub.merged # <<>>
    /\ sub.out = <<>>
    /\ sub.err = sub.fetched[2]

\* C30, as stated: filterPenalized reads the ledger file with penaltyMu held and
\* not while a write of the file is under way; a worker that has read the file
\* and not yet returned holds penaltyMu; when all workers have returned from
\* FreezeEndpoint the file has a record for each of their tags.
C30_AsStated ==
    /\ ledgerOps.pc = "calls" =>
        /\ ledgerOps.filter.at # "idle" =>
                ledgerOps.filter.held /\ ~ledgerOps.filter.torn
        /\ \A w \in Freezers :
                ledgerOps.at[w] \in {"locked", "read", "writing", "written"} => ledgerOps.mu = w
        /\ (\A w \in Freezers : ledgerOps.at[w] = "done") =>
                \A w \in Freezers :
                    FreezeTag(w) \in DOMAIN ledger /\ ledger[FreezeTag(w)] = now + FreezeMinutes

\* C37, as stated: no subprocess StartSingBox launched for a batch is left without
\* a registered stop, whatever the penalty filter returned: while the subprocess
\* of a batch runs, the goroutine that stops it once the batch's context is done
\* exists.
C37_AsStated == \A r \in Reqs : proc[r] = "running" => stopArmed[r]

\* C39: a runScenario invocation that has a proxy tag and passed the initial
\* ctx.Err() check has called FreezeEndpoint for its tag by the time it has
\* returned, whatever its outcome and error: a write of the ledger succeeded, or
\* the last one it tried failed.
C39_FreezeAttempted ==
    \A r \in Reqs : \A w \in Slots :
        (/\ workers[r][w].pc = "returned"
         /\ workers[r][w].entered
         /\ workers[r][w].tag # "")
        => (workers[r][w].writes > 0 \/ workers[r][w].ioFailed)

\* the download poll of a worker with a proxy tag ended with outcome none and no
\* error, and the deferred freeze wrote its record
C39_Witness ==
    \E r \in Reqs : \E w \in Slots :
        /\ workers[r][w].pc = "returned"
        /\ workers[r][w].entered
        /\ workers[r][w].tag # ""
        /\ workers[r][w].outcome = DownloadOutcomeNone
        /\ workers[r][w].err = NoErr
        /\ workers[r][w].writes = 1
        /\ workers[r][w].tag \in DOMAIN ledger

\* C33, as stated: the tags of the outbounds loadOrFetchOutbounds has merged are
\* pairwise distinct, whatever node names the subscription listed.
C33_AsStated ==
    \A i, j \in 1..Len(sub.merged) : i # j => sub.merged[i].tag # sub.merged[j].tag

\* the lines of the penalty file f that writePenaltiesFile writes for tag
LinesOf(f, tag) ==
    {l \in f.lines : \E e \in Times : l = FormatLine(tag, e)}

\* C31, as stated: after a successful FreezeEndpoint(T) the penalty file holds
\* exactly one record for T, with expiry now + 15 minutes, and the record of
\* every other tag is the one the file held before the call.
C31_AsStated ==
    (/\ penaltyFile.pc = "file"
     /\ penaltyFile.last.op = "freeze"
     /\ ~penaltyFile.last.err
     /\ TrimSpace(penaltyFile.last.tag) # <<>>)
    => /\ LinesOf(penaltyFile.file, penaltyFile.last.tag) =
              {FormatLine(penaltyFile.last.tag, penaltyFile.last.at + FreezeMinutes)}
       /\ \A u \in FileTags \ {penaltyFile.last.tag} :
              LinesOf(penaltyFile.file, u) = LinesOf(penaltyFile.last.before, u)

C38_AsStated ==
    (/\ penaltyFile.pc = "file"
     /\ penaltyFile.last.op = "filter"
     /\ ~penaltyFile.last.err)
    => \A t \in FileTags : \A e \in Times :
          FormatLine(t, e) \in penaltyFile.file.lines =>
              (([Tag |-> t] \in penaltyFile.last.out) <=> ~(penaltyFile.last.at < e))

\* C34: buildConfig makes one listener, one route rule and one endpoint per
\* outbound; the i-th outbound (counted from 0) gets port 17880 + i, the ports
\* are pairwise distinct, the rule of inbound i names inbound i alone and the
\* tag of outbound i, endpoint i carries that tag and the URL
\* socks5://127.0.0.1:(17880 + i); the route's final outbound is direct, and
\* an outbound of type direct, and one of type block, is appended exactly when
\* the outbounds have none.
C34_OnePerOutbound ==
    (box.pc = "config" /\ box.built) =>
        LET n == Len(box.outbounds)
            c == box.cfg
            obs == c.outbounds
            noDirect == \A i \in 1..n : box.outbounds[i].type # <<"direct">>
            noBlock == \A i \in 1..n : box.outbounds[i].type # <<"block">>
            extra == (IF noDirect THEN 1 ELSE 0) + (IF noBlock THEN 1 ELSE 0)
        IN /\ Len(c.inbounds) = n
           /\ Len(c.route.rules) = n
           /\ Len(box.endpoints) = n
           /\ \A i \in 1..n :
                /\ c.inbounds[i].listen_port = 17880 + (i - 1)
                /\ c.route.rules[i].inbound = <<c.inbounds[i].tag>>
                /\ c.route.rules[i].outbound = obs[i].tag
                /\ obs[i].type = box.outbounds[i].type
                /\ box.outbounds[i].tag # <<>> => obs[i].tag = box.outbounds[i].tag
                /\ box.endpoints[i].Tag = obs[i].tag
                /\ box.endpoints[i].URL =
                        <<"socks5", ":", "//127.0.0.1", ":">> \o Sprintd(17880 + (i - 1))
                /\ extractPort(box.endpoints[i].URL) = c.inbounds[i].listen_port
           /\ \A i, j \in 1..n :
                i # j => /\ c.inbounds[i].listen_port # c.inbounds[j].listen_port
                         /\ c.inbounds[i].tag # c.inbounds[j].tag
           /\ c.route.final = <<"direct">>
           /\ Len(obs) = n + extra
           /\ \E i \in 1..Len(obs) : obs[i].type = <<"direct">>
           /\ \E i \in 1..Len(obs) : obs[i].type = <<"block">>
           /\ noDirect => obs[n + 1] = [type |-> <<"direct">>, tag |-> <<"direct">>]
           /\ noBlock => obs[Len(obs)] = [type |-> <<"block">>, tag |-> <<"block">>]

\* buildConfig was given three nodes, none of type direct or block: three
\* listeners on three ports, and direct and block appended
C34_Witness ==
    /\ box.pc = "config"
    /\ box.built
    /\ Len(box.outbounds) = MaxOutbounds
    /\ \A i \in 1..Len(box.outbounds) : box.outbounds[i].type = <<"vmess">>
    /\ box.cfg.inbounds[MaxOutbounds].listen_port = singboxBasePort + MaxOutbounds - 1
    /\ Len(box.cfg.outbounds) = MaxOutbounds + 2

\* C35, as stated: a StartSingBox call that handed out endpoints had seen the
\* probe of the first listener's port succeed within its 15 seconds and had
\* applied the settle delay.
C35_AsStated ==
    (/\ box.pc = "box"
     /\ box.last.op = "start"
     /\ box.last.err = NoErr
     /\ box.last.out # <<>>)
    => box.last.probe = "ready" /\ box.last.settled

\* C36: with no subscription URL in the environment and none stored,
\* StartSingBox returns no endpoint, a stop function that does nothing and no
\* error; it has called neither MkdirAll nor a fetch nor a file write nor
\* exec, the directory and the subprocess do not exist, and the batch gives
\* each of its workers no proxy.
C36_NoSubscriptionDirect ==
    (/\ box.pc = "box"
     /\ box.last.op = "start"
     /\ box.env = <<>>
     /\ box.stored = <<>>)
    => /\ box.last.urls = <<>>
       /\ box.last.out = <<>>
       /\ box.last.stop = "noop"
       /\ box.last.err = NoErr
       /\ box.last.touched = {}
       /\ box.last.fetched = 0
       /\ ~box.last.wrote
       /\ box.last.left = box.last.found
       /\ ~box.dir
       /\ box.proc = "none"
       /\ \A n \in 0..MaxCount :
            /\ RunCount(n, box.last.out) = ScenarioCount(n)
            /\ \A w \in 1..RunCount(n, box.last.out) :
                  AssignedURL(box.last.out, w) = "" /\ AssignedTag(box.last.out, w) = ""

\* StartSingBox was called with no URL configured while a usable cache file
\* was on disk: nothing was returned and nothing created
C36_Witness ==
    /\ box.pc = "box"
    /\ box.last.op = "start"
    /\ box.env = <<>>
    /\ box.stored = <<>>
    /\ ValidCache(box.cache)
    /\ box.last.out = <<>>
    /\ ~box.dir

====
